---------------------------- MODULE Spec2Model ----------------------------
(***************************************************************************)
(* A model of the cronschedule package (src/cronschedule.go): the field    *)
(* parser (Parse, ParseFieldValue, GenerateValueSlice), the satisfaction   *)
(* test (ShouldExecute) and the next-execution engine (computeStartValues, *)
(* NextExecutions, NextExecution), together with the brute-force scanner   *)
(* of the package's lineage (src/unnamed/part_001).                        *)
(*                                                                         *)
(* Text is a sequence of one-character strings.  An instant is a record    *)
(* [year, month, day, hour, minute, second] of the local calendar, which   *)
(* is taken to have a fixed offset (no daylight-saving transitions).       *)
(***************************************************************************)
EXTENDS Integers, Sequences, FiniteSets, TLC

VARIABLES
    expr,        \* the text handed to Parse
    pc,          \* position of the caller / of the running call
    schedule,    \* the Schedule value Parse returned
    parseErr,    \* the error Parse returned ("none": nil)
    api,         \* the operation of the Schedule that was called
    t,           \* the instant handed to that operation
    count,       \* the count handed to NextExecutions
    year,        \* locals of computeStartValues / NextExecutions
    monthIdx,
    hourIdx,
    minuteIdx,
    day,
    numFound,
    execTimes,
    ret,         \* the instants the call returned to its caller
    matched,     \* what ShouldExecute returned
    oracleT,     \* brute-force scanner: the instant under test
    oracleOut,   \* brute-force scanner: the instants collected
    fnArgs,      \* a direct call of an exported function: its arguments
    fnOut        \* what that call returned

vars == <<expr, pc, schedule, parseErr, api, t, count, year, monthIdx, hourIdx,
          minuteIdx, day, numFound, execTimes, ret, matched, oracleT,
          oracleOut, fnArgs, fnOut>>

callVars == <<api, t, count, year, monthIdx, hourIdx, minuteIdx, day, numFound,
              execTimes, ret, matched>>

oracleVars == <<oracleT, oracleOut>>

fnVars == <<fnArgs, fnOut>>

---------------------------------------------------------------------------
(* Field domains.                                                          *)

FieldMinuteMin == 0
FieldMinuteMax == 59
FieldHourMin == 0
FieldHourMax == 23
FieldDayOfMonthMin == 1
FieldDayOfMonthMax == 31
FieldMonthMin == 1
FieldMonthMax == 12
FieldDayOfTheWeekMin == 0
FieldDayOfTheWeekMax == 6

---------------------------------------------------------------------------
(* Text: strings.TrimSpace, strings.Split, strconv.Atoi, the regexp.       *)

Digit == {"0", "1", "2", "3", "4", "5", "6", "7", "8", "9"}

DigitVal(c) ==
    CASE c = "0" -> 0 [] c = "1" -> 1 [] c = "2" -> 2 [] c = "3" -> 3
      [] c = "4" -> 4 [] c = "5" -> 5 [] c = "6" -> 6 [] c = "7" -> 7
      [] c = "8" -> 8 [] c = "9" -> 9

WhiteSpace == {" ", "\t"}

RECURSIVE TrimLeft(_)
TrimLeft(s) ==
    IF s # <<>> /\ Head(s) \in WhiteSpace THEN TrimLeft(Tail(s)) ELSE s

RECURSIVE TrimRight(_)
TrimRight(s) ==
    IF s # <<>> /\ s[Len(s)] \in WhiteSpace
    THEN TrimRight(SubSeq(s, 1, Len(s) - 1))
    ELSE s

\* strings.TrimSpace: leading and trailing white space removed.
TrimSpace(s) == TrimRight(TrimLeft(s))

\* The position of the first sep in s, 0 when there is none.
IndexOf(s, sep) ==
    IF \E i \in 1..Len(s) : s[i] = sep
    THEN CHOOSE i \in 1..Len(s) :
            s[i] = sep /\ \A j \in 1..(i - 1) : s[j] # sep
    ELSE 0

\* strings.Split(s, sep) for a one-character sep: n separators give n + 1
\* pieces, empty pieces included; a text without sep gives the text alone.
RECURSIVE Split(_, _)
Split(s, sep) ==
    LET i == IndexOf(s, sep)
    IN  IF i = 0
        THEN <<s>>
        ELSE <<SubSeq(s, 1, i - 1)>> \o Split(SubSeq(s, i + 1, Len(s)), sep)

\* \d* : any number of decimal digits, none included.
IsDigits(s) == \A i \in 1..Len(s) : s[i] \in Digit

RECURSIVE DigitsValue(_, _)
DigitsValue(s, acc) ==
    IF s = <<>> THEN acc ELSE DigitsValue(Tail(s), 10 * acc + DigitVal(Head(s)))

RECURSIVE StripZeros(_)
\* The digits of a number without its leading zeros.
StripZeros(s) ==
    IF s # <<>> /\ Head(s) = "0" THEN StripZeros(Tail(s)) ELSE s

\* The largest and the smallest int.  int is 32 bits wide here, as on a
\* 32-bit build; on a 64-bit build the same holds with 1<<63 in place of
\* 1<<31.
MaxInt == 2147483647

MinInt == (0 - MaxInt) - 1

\* The digits of the largest int, 1<<31 - 1.
MaxIntDigits == <<"2", "1", "4", "7", "4", "8", "3", "6", "4", "7">>

\* a + b on int: the sum wraps around at the ends of the range.
AddInt(a, b) ==
    IF b > 0 /\ a > MaxInt - b THEN MinInt + ((a - (MaxInt - b)) - 1)
    ELSE IF b < 0 /\ a < MinInt - b THEN MaxInt - (((MinInt - b) - a) - 1)
    ELSE a + b

\* A decimal text whose value is at most MaxInt: fewer digits than the
\* largest int, or as many and not after it digit by digit.
FitsInt(s) ==
    LET d == StripZeros(s)
    IN  \/ Len(d) < Len(MaxIntDigits)
        \/ /\ Len(d) = Len(MaxIntDigits)
           /\ \A i \in 1..Len(d) :
                 (\A j \in 1..(i - 1) : d[j] = MaxIntDigits[j]) =>
                     DigitVal(d[i]) <= DigitVal(MaxIntDigits[i])

\* strconv.Atoi on the texts the regexp lets through (digits only): an error
\* for the empty text and for a value out of the range of int, the decimal
\* value otherwise.
Atoi(s) ==
    IF s # <<>> /\ IsDigits(s) /\ FitsInt(s)
    THEN [ok |-> TRUE, v |-> DigitsValue(s, 0)]
    ELSE [ok |-> FALSE, v |-> 0]

\* The six alternatives of CronFieldValueRegex, each anchored at both ends.
ReWildcard(s) == s = <<"*">>

ReWildcardInterval(s) ==
    /\ Len(s) >= 2
    /\ s[1] = "*"
    /\ s[2] = "/"
    /\ IsDigits(SubSeq(s, 3, Len(s)))

ReRange(s) ==
    \E i \in 1..Len(s) :
        /\ s[i] = "-"
        /\ IsDigits(SubSeq(s, 1, i - 1))
        /\ IsDigits(SubSeq(s, i + 1, Len(s)))

ReRangeInterval(s) ==
    \E i \in 1..Len(s) : \E j \in (i + 1)..Len(s) :
        /\ s[i] = "-"
        /\ s[j] = "/"
        /\ IsDigits(SubSeq(s, 1, i - 1))
        /\ IsDigits(SubSeq(s, i + 1, j - 1))
        /\ IsDigits(SubSeq(s, j + 1, Len(s)))

ReStartInterval(s) ==
    \E j \in 1..Len(s) :
        /\ s[j] = "/"
        /\ IsDigits(SubSeq(s, 1, j - 1))
        /\ IsDigits(SubSeq(s, j + 1, Len(s)))

ReNumber(s) == IsDigits(s)

\* matchGroups[1..6] of a match by alternative k: the group of the
\* alternative that matched holds the text, the others are empty.
Groups(k, value) ==
    [g \in 1..6 |-> IF g = k THEN value ELSE <<>>]

\* re.FindAllStringSubmatch(value, -1): nil when no alternative matches,
\* else the one match (the pattern is anchored at both ends) with its groups.
FindAllStringSubmatch(value) ==
    CASE ReWildcard(value)         -> [nil |-> FALSE, groups |-> Groups(1, value)]
      [] ReWildcardInterval(value) -> [nil |-> FALSE, groups |-> Groups(2, value)]
      [] ReRange(value)            -> [nil |-> FALSE, groups |-> Groups(3, value)]
      [] ReRangeInterval(value)    -> [nil |-> FALSE, groups |-> Groups(4, value)]
      [] ReStartInterval(value)    -> [nil |-> FALSE, groups |-> Groups(5, value)]
      [] ReNumber(value)           -> [nil |-> FALSE, groups |-> Groups(6, value)]
      [] OTHER                     -> [nil |-> TRUE, groups |-> Groups(0, value)]

---------------------------------------------------------------------------
(* GenerateValueSlice and ParseFieldValue.                                 *)

RECURSIVE ValueLoop(_, _, _)
\* The loop of GenerateValueSlice: value, value + interval, ... while the
\* value does not exceed rangeEnd.
ValueLoop(value, rangeEnd, interval) ==
    IF value <= rangeEnd
    THEN <<value>> \o ValueLoop(AddInt(value, interval), rangeEnd, interval)
    ELSE <<>>

\* A faulty variant of GenerateValueSlice: the loop stops before rangeEnd.
GenerateValueSliceExclusive(rangeStart, rangeEnd, interval, fieldMin, fieldMax) ==
    IF interval <= 0 THEN [err |-> "interval", values |-> <<>>]
    ELSE IF rangeStart > rangeEnd THEN [err |-> "range", values |-> <<>>]
    ELSE IF rangeStart < fieldMin THEN [err |-> "below_min", values |-> <<>>]
    ELSE IF rangeEnd > fieldMax THEN [err |-> "above_max", values |-> <<>>]
    ELSE [err |-> "none",
          values |-> ValueLoop(rangeStart, rangeEnd - 1, interval)]

GenerateValueSlice(rangeStart, rangeEnd, interval, fieldMin, fieldMax) ==
    IF interval <= 0 THEN [err |-> "interval", values |-> <<>>]
    ELSE IF rangeStart > rangeEnd THEN [err |-> "range", values |-> <<>>]
    ELSE IF rangeStart < fieldMin THEN [err |-> "below_min", values |-> <<>>]
    ELSE IF rangeEnd > fieldMax THEN [err |-> "above_max", values |-> <<>>]
    ELSE [err |-> "none", values |-> ValueLoop(rangeStart, rangeEnd, interval)]

\* What ParseFieldValue hands back: the values, an error value, or a panic.
Values(g) ==
    IF g.err = "none"
    THEN [kind |-> "ok", err |-> "none", values |-> g.values]
    ELSE [kind |-> "error", err |-> g.err, values |-> <<>>]

Panic == [kind |-> "panic", err |-> "panic", values |-> <<>>]

\* A number the code supplies itself, in the shape of an Atoi result.
Given(n) == [ok |-> TRUE, v |-> n]

\* The tail of every case of ParseFieldValue: a failed strconv.Atoi panics,
\* else GenerateValueSlice decides.
Generate(startRange, endRange, interval, min, max) ==
    IF ~startRange.ok \/ ~endRange.ok \/ ~interval.ok
    THEN Panic
    ELSE Values(GenerateValueSlice(startRange.v, endRange.v, interval.v, min, max))

\* [*/#]: params := strings.Split(matchGroups[2], "/")
WildcardIntervalCase(params, min, max) ==
    IF Len(params) # 2 THEN Panic
    ELSE Generate(Given(min), Given(max), Atoi(params[2]), min, max)

\* [#-#]: params := strings.Split(matchGroups[3], "-")
RangeCase(params, min, max) ==
    IF Len(params) # 2 THEN Panic
    ELSE Generate(Atoi(params[1]), Atoi(params[2]), Given(1), min, max)

\* [#-#/#]: params := strings.Split(components[0], "-")
RangeIntervalParams(params, interval, min, max) ==
    IF Len(params) # 2 THEN Panic
    ELSE Generate(Atoi(params[1]), Atoi(params[2]), interval, min, max)

\* [#-#/#]: components := strings.Split(matchGroups[4], "/")
RangeIntervalCase(components, min, max) ==
    IF Len(components) # 2 THEN Panic
    ELSE RangeIntervalParams(Split(components[1], "-"), Atoi(components[2]),
                             min, max)

\* [#/#]: params := strings.Split(matchGroups[5], "/")
StartIntervalCase(params, min, max) ==
    IF Len(params) # 2 THEN Panic
    ELSE Generate(Atoi(params[1]), Given(max), Atoi(params[2]), min, max)

\* [#]: singleValue, err := strconv.Atoi(matchGroups[6])
NumberCase(singleValue, min, max) ==
    Generate(singleValue, singleValue, Given(1), min, max)

\* The switch of ParseFieldValue over the groups of the match.
SwitchGroups(matchGroups, min, max) ==
    CASE matchGroups[1] # <<>> ->
            Generate(Given(min), Given(max), Given(1), min, max)
      [] matchGroups[2] # <<>> ->
            WildcardIntervalCase(Split(matchGroups[2], "/"), min, max)
      [] matchGroups[3] # <<>> ->
            RangeCase(Split(matchGroups[3], "-"), min, max)
      [] matchGroups[4] # <<>> ->
            RangeIntervalCase(Split(matchGroups[4], "/"), min, max)
      [] matchGroups[5] # <<>> ->
            StartIntervalCase(Split(matchGroups[5], "/"), min, max)
      [] matchGroups[6] # <<>> ->
            NumberCase(Atoi(matchGroups[6]), min, max)
      [] OTHER ->
            \* panic("field matched without a match group found")
            Panic

\* if match == nil { return nil, "... is not in a supported field value format" }
MatchCase(match, min, max) ==
    IF match.nil
    THEN [kind |-> "error", err |-> "unsupported_format", values |-> <<>>]
    ELSE SwitchGroups(match.groups, min, max)

ParseFieldValue(value, min, max) ==
    MatchCase(FindAllStringSubmatch(value), min, max)

---------------------------------------------------------------------------
(* The Schedule: five maps (value -> times added), their ascending lists,  *)
(* the token texts and the trimmed source text.                            *)

EmptyMap == <<>>

EmptySchedule ==
    [Minutes |-> EmptyMap, MinutesStr |-> <<>>, MinutesSlice |-> <<>>,
     Hours |-> EmptyMap, HoursStr |-> <<>>, HoursSlice |-> <<>>,
     DaysOfMonth |-> EmptyMap, DaysOfMonthStr |-> <<>>, DaysOfMonthSlice |-> <<>>,
     Months |-> EmptyMap, MonthsStr |-> <<>>, MonthsSlice |-> <<>>,
     DaysOfTheWeek |-> EmptyMap, DaysOfTheWeekStr |-> <<>>, DaysOfWeekSlice |-> <<>>,
     ScheduleStr |-> <<>>]

\* A faulty variant of AddValues: the range test is left out.
AddValuesUnchecked(m, values, min, max) ==
    LET valid == 1..Len(values)
        keys == (DOMAIN m) \cup {values[j] : j \in valid}
        added(k) == Cardinality({j \in valid : values[j] = k})
    IN  [k \in keys |-> IF k \in DOMAIN m THEN m[k] + added(k) ELSE added(k)]

\* The loop of an Add* method over its values: a value outside [min, max] is
\* skipped (continue); a value already in the map has its entry incremented,
\* a new one is entered with 1.  The map after the loop holds, for each key,
\* what it held before plus the number of times the key was added.
AddValues(m, values, min, max) ==
    LET valid == {j \in 1..Len(values) : ~(values[j] < min \/ values[j] > max)}
        keys == (DOMAIN m) \cup {values[j] : j \in valid}
        added(k) == Cardinality({j \in valid : values[j] = k})
    IN  [k \in keys |-> IF k \in DOMAIN m THEN m[k] + added(k) ELSE added(k)]

AddMinutes(s, minutes) ==
    [s EXCEPT !.Minutes = AddValues(@, minutes, FieldMinuteMin, FieldMinuteMax)]

AddHours(s, hours) ==
    [s EXCEPT !.Hours = AddValues(@, hours, FieldHourMin, FieldHourMax)]

AddDaysOfMonth(s, daysOfMonth) ==
    [s EXCEPT !.DaysOfMonth =
        AddValues(@, daysOfMonth, FieldDayOfMonthMin, FieldDayOfMonthMax)]

AddMonths(s, months) ==
    [s EXCEPT !.Months = AddValues(@, months, FieldMonthMin, FieldMonthMax)]

AddDaysOfTheWeek(s, daysOfTheWeek) ==
    [s EXCEPT !.DaysOfTheWeek =
        AddValues(@, daysOfTheWeek, FieldDayOfTheWeekMin, FieldDayOfTheWeekMax)]

AddByIndex(s, values, index) ==
    CASE index = 0 -> AddMinutes(s, values)
      [] index = 1 -> AddHours(s, values)
      [] index = 2 -> AddDaysOfMonth(s, values)
      [] index = 3 -> AddMonths(s, values)
      [] index = 4 -> AddDaysOfTheWeek(s, values)
      [] OTHER -> s

AddFieldStrByIndex(s, fieldStr, index) ==
    CASE index = 0 -> [s EXCEPT !.MinutesStr = Append(@, fieldStr)]
      [] index = 1 -> [s EXCEPT !.HoursStr = Append(@, fieldStr)]
      [] index = 2 -> [s EXCEPT !.DaysOfMonthStr = Append(@, fieldStr)]
      [] index = 3 -> [s EXCEPT !.MonthsStr = Append(@, fieldStr)]
      [] index = 4 -> [s EXCEPT !.DaysOfTheWeekStr = Append(@, fieldStr)]
      [] OTHER -> s

FieldMinMaxByIndex(i) ==
    CASE i = 0 -> [min |-> FieldMinuteMin, max |-> FieldMinuteMax, err |-> FALSE]
      [] i = 1 -> [min |-> FieldHourMin, max |-> FieldHourMax, err |-> FALSE]
      [] i = 2 -> [min |-> FieldDayOfMonthMin, max |-> FieldDayOfMonthMax,
                   err |-> FALSE]
      [] i = 3 -> [min |-> FieldMonthMin, max |-> FieldMonthMax, err |-> FALSE]
      [] i = 4 -> [min |-> FieldDayOfTheWeekMin, max |-> FieldDayOfTheWeekMax,
                   err |-> FALSE]
      [] OTHER -> [min |-> 0, max |-> 0, err |-> TRUE]

RECURSIVE SortSet(_)
\* sort.Ints on the keys collected from a map.
SortSet(S) ==
    IF S = {} THEN <<>>
    ELSE LET lo == CHOOSE x \in S : \A y \in S : x <= y
         IN  <<lo>> \o SortSet(S \ {lo})

\* The keys of a map: the set of accepted values of a field.
Keys(m) == DOMAIN m

\* A faulty variant of sortMapKeys that lists a key once more when it was
\* added more than once.
sortMapKeysRepeated(m) ==
    LET sorted == SortSet(DOMAIN m)
        twice(k) == m[k] > 1
    IN  sorted \o SelectSeq(sorted, twice)

\* A faulty variant of sortMapKeys that leaves out sort.Ints: the keys in
\* descending order, one of the orders a map iteration can give.
sortMapKeysUnsorted(m) ==
    LET sorted == SortSet(DOMAIN m)
    IN  [k \in 1..Len(sorted) |-> sorted[Len(sorted) + 1 - k]]

sortMapKeys(m) == SortSet(DOMAIN m)

buildSlices(s) ==
    [s EXCEPT !.MinutesSlice = sortMapKeys(s.Minutes),
              !.HoursSlice = sortMapKeys(s.Hours),
              !.DaysOfMonthSlice = sortMapKeys(s.DaysOfMonth),
              !.MonthsSlice = sortMapKeys(s.Months),
              !.DaysOfWeekSlice = sortMapKeys(s.DaysOfTheWeek)]

---------------------------------------------------------------------------
(* Parse.                                                                  *)

RECURSIVE ParseValues(_, _, _, _, _)

\* One value of a field: its text is already recorded in s; r is what
\* ParseFieldValue returned for it.  The first failure ends Parse.
ParseValue(s, r, values, k, i, mm) ==
    IF r.kind # "ok"
    THEN [schedule |-> s, err |-> r.err]
    ELSE ParseValues(AddByIndex(s, r.values, i), values, k + 1, i, mm)

\* The inner loop of Parse over the comma-separated values of field i.
ParseValues(s, values, k, i, mm) ==
    IF k > Len(values) THEN [schedule |-> s, err |-> "none"]
    ELSE ParseValue(AddFieldStrByIndex(s, values[k], i),
                    ParseFieldValue(values[k], mm.min, mm.max), values, k, i, mm)

RECURSIVE ParseFields(_, _, _)

\* After the values of field i: an error ends Parse, else the next field.
AfterField(r, fields, i) ==
    IF r.err # "none" THEN r ELSE ParseFields(r.schedule, fields, i + 1)

\* A faulty variant of ParseField: an empty field is not refused.
ParseFieldNoEmptyTest(s, field, mm, fields, i) ==
    IF mm.err THEN [schedule |-> s, err |-> "unknown_index"]
    ELSE AfterField(ParseValues(s, Split(field, ","), 1, i, mm), fields, i)

\* One field of the outer loop of Parse, mm its FieldMinMaxByIndex.
ParseField(s, field, mm, fields, i) ==
    IF field = <<>> THEN [schedule |-> s, err |-> "empty_field"]
    ELSE IF mm.err THEN [schedule |-> s, err |-> "unknown_index"]
    ELSE AfterField(ParseValues(s, Split(field, ","), 1, i, mm), fields, i)

\* The outer loop of Parse over the fields, i counted from 0.
ParseFields(s, fields, i) ==
    IF i >= Len(fields) THEN [schedule |-> s, err |-> "none"]
    ELSE ParseField(s, fields[i + 1], FieldMinMaxByIndex(i), fields, i)

\* A faulty variant of the clean-up: with both day fields "*" the
\* day-of-week map is emptied as well.
ResolveDayFieldsEmptyWeek(s, fields) ==
    LET s1 == IF fields[3] = <<"*">> /\ fields[5] # <<"*">>
              THEN [s EXCEPT !.DaysOfMonth = EmptyMap]
              ELSE s
    IN  IF fields[5] = <<"*">>
        THEN [s1 EXCEPT !.DaysOfTheWeek = EmptyMap]
        ELSE s1

\* A faulty variant of the clean-up: a day field counts as a wild card as
\* soon as its text begins with "*".
ResolveDayFieldsLeadingStar(s, fields) ==
    LET s1 == IF fields[3][1] = "*" /\ fields[5][1] # "*"
              THEN [s EXCEPT !.DaysOfMonth = EmptyMap]
              ELSE s
    IN  IF fields[3][1] # "*" /\ fields[5][1] = "*"
        THEN [s1 EXCEPT !.DaysOfTheWeek = EmptyMap]
        ELSE s1

\* The day-of-month / day-of-week wild card clean-up of Parse.
ResolveDayFields(s, fields) ==
    LET s1 == IF fields[3] = <<"*">> /\ fields[5] # <<"*">>
              THEN [s EXCEPT !.DaysOfMonth = EmptyMap]
              ELSE s
    IN  IF fields[3] # <<"*">> /\ fields[5] = <<"*">>
        THEN [s1 EXCEPT !.DaysOfTheWeek = EmptyMap]
        ELSE s1

\* A faulty variant of the tail of Parse: the lists built before the day
\* fields are resolved.
FinishParseSlicesFirst(s, fields) == ResolveDayFields(buildSlices(s), fields)

\* The tail of Parse once every field has parsed.
FinishParse(s, fields) == buildSlices(ResolveDayFields(s, fields))

\* After the field loop: the error, or the finished Schedule.
AfterFields(r, fields) ==
    IF r.err # "none" THEN r
    ELSE [schedule |-> FinishParse(r.schedule, fields), err |-> "none"]

\* A faulty variant of ParseSplit: only too few fields are refused.
ParseSplitAtLeast(s0, fields) ==
    IF Len(fields) < 5
    THEN [schedule |-> s0, err |-> "field_count"]
    ELSE AfterFields(ParseFields(s0, fields, 0), fields)

\* The fields of the trimmed text s0.ScheduleStr: exactly 5, or an error.
ParseSplit(s0, fields) ==
    IF Len(fields) # 5
    THEN [schedule |-> s0, err |-> "field_count"]
    ELSE AfterFields(ParseFields(s0, fields, 0), fields)

ParseTrimmed(s0) == ParseSplit(s0, Split(s0.ScheduleStr, " "))

\* Parse(s): the Schedule and the error it returns; err = "panic" when it
\* panics instead of returning.
Parse(text) ==
    ParseTrimmed([EmptySchedule EXCEPT !.ScheduleStr = TrimSpace(text)])

---------------------------------------------------------------------------
(* The calendar: what the time package computes for the engine.            *)

IsLeap(y) == y % 4 = 0 /\ (y % 100 # 0 \/ y % 400 = 0)

\* time.Date(year, December, 31, ...).YearDay()
YearDayOfDec31(y) == IF IsLeap(y) THEN 366 ELSE 365

\* A faulty variant of daysPerMonth: every month has 31 days.
daysPerMonthAlways31(month, y) == IF month \in 1..12 THEN 31 ELSE 0

\* daysPerMonth(month, year); 0 stands for its panic("unknown month"), which
\* no month of a map reaches (AddMonths keeps 1..12).
daysPerMonth(month, y) ==
    CASE month \in {1, 3, 5, 7, 8, 10, 12} -> 31
      [] month \in {4, 6, 9, 11} -> 30
      [] month = 2 -> IF YearDayOfDec31(y) > 365 THEN 29 ELSE 28
      [] OTHER -> 0

\* Days of the proleptic Gregorian calendar before January 1 of year y.
DaysBeforeYear(y) ==
    365 * (y - 1) + ((y - 1) \div 4) - ((y - 1) \div 100) + ((y - 1) \div 400)

RECURSIVE DaysBeforeMonth(_, _)
DaysBeforeMonth(month, y) ==
    IF month <= 1 THEN 0
    ELSE DaysBeforeMonth(month - 1, y) + daysPerMonth(month - 1, y)

\* time.Time.Weekday(): 0 = Sunday ... 6 = Saturday (January 1 of year 1 is
\* a Monday).
Weekday(y, month, d) ==
    (1 + DaysBeforeYear(y) + DaysBeforeMonth(month, y) + (d - 1)) % 7

RECURSIVE Date(_, _, _, _, _, _)
\* time.Date(year, month, day, hour, min, sec, 0, time.Local): a day past
\* the end of the month is normalised into the following month.
Date(y, month, d, h, mi, sec) ==
    IF month > 12 THEN Date(y + 1, month - 12, d, h, mi, sec)
    ELSE IF d > daysPerMonth(month, y)
    THEN Date(y, month + 1, d - daysPerMonth(month, y), h, mi, sec)
    ELSE [year |-> y, month |-> month, day |-> d, hour |-> h, minute |-> mi,
          second |-> sec]

\* t.Add(1 * time.Minute)
AddMinute(i) ==
    IF i.minute < 59 THEN [i EXCEPT !.minute = @ + 1]
    ELSE IF i.hour < 23 THEN [i EXCEPT !.minute = 0, !.hour = @ + 1]
    ELSE Date(i.year, i.month, i.day + 1, 0, 0, i.second)

\* Chronological order of two instants.
Before(a, b) ==
    LET ka == <<a.year, a.month, a.day, a.hour, a.minute, a.second>>
        kb == <<b.year, b.month, b.day, b.hour, b.minute, b.second>>
    IN  \E k \in 1..6 : ka[k] < kb[k] /\ \A j \in 1..(k - 1) : ka[j] = kb[j]

---------------------------------------------------------------------------
(* ShouldExecute.                                                          *)

\* A faulty variant of ShouldExecute: both day fields must accept the day.
ShouldExecuteBothDays(s, i) ==
    /\ i.minute \in DOMAIN s.Minutes
    /\ i.hour \in DOMAIN s.Hours
    /\ i.month \in DOMAIN s.Months
    /\ i.day \in DOMAIN s.DaysOfMonth
    /\ Weekday(i.year, i.month, i.day) \in DOMAIN s.DaysOfTheWeek

ShouldExecute(s, i) ==
    IF i.minute \notin DOMAIN s.Minutes THEN FALSE
    ELSE IF i.hour \notin DOMAIN s.Hours THEN FALSE
    ELSE IF i.month \notin DOMAIN s.Months THEN FALSE
    ELSE LET dayOfMonthOK == i.day \in DOMAIN s.DaysOfMonth
             dayOfWeekOK == Weekday(i.year, i.month, i.day) \in DOMAIN s.DaysOfTheWeek
         IN  IF ~dayOfWeekOK /\ ~dayOfMonthOK THEN FALSE ELSE TRUE

---------------------------------------------------------------------------
(* Inputs.                                                                 *)

MaxCount == 2       \* largest count handed to NextExecutions
MaxYear == 2025     \* the year search of NextExecutions is followed up to here
MaxTokenLen == 3    \* longest text tried as a minute field

Instant(y, month, d, h, mi, sec) ==
    [year |-> y, month |-> month, day |-> d, hour |-> h, minute |-> mi,
     second |-> sec]

ZeroInstant == Instant(0, 0, 0, 0, 0, 0)

Instants ==
    { Instant(2020, 7, 23, 15, 28, 0),   Instant(2020, 7, 23, 21, 59, 30),
      Instant(2020, 7, 23, 22, 0, 15),   Instant(2020, 7, 23, 1, 59, 0),
      Instant(2020, 7, 25, 10, 59, 0),   Instant(2020, 7, 31, 23, 59, 0),
      Instant(2020, 12, 31, 23, 59, 0),  Instant(2020, 12, 31, 21, 59, 45),
      Instant(2020, 2, 28, 23, 59, 0),   Instant(2021, 2, 28, 23, 59, 59),
      Instant(2020, 4, 30, 23, 59, 0),   Instant(2020, 1, 1, 0, 0, 0),
      Instant(2020, 3, 3, 23, 59, 0) }

SP == <<" ">>

\* The five field texts joined by single spaces.
Expr5(a, b, c, d, e) == a \o SP \o b \o SP \o c \o SP \o d \o SP \o e

Star == <<"*">>
Zero == <<"0">>

ValidExpressions ==
    { Expr5(Star, Star, Star, Star, Star),
      Expr5(Zero, <<"2", "2">>, Star, Star, <<"1", "-", "5">>),
      Expr5(<<"5">>, Zero, Star, <<"8">>, Star),
      Expr5(<<"1", "5">>, <<"1", "4">>, <<"1">>, Star, Star),
      Expr5(<<"2", "3">>, <<"0", "-", "2", "0", "/", "2">>, Star, Star,
            <<"3", ",", "2", ",", "4", ",", "5">>),
      Expr5(Zero, <<"4">>, <<"8", "-", "1", "4">>, Star, Star),
      Expr5(Star, <<"1">>, <<"1", "0">>, Star, Star),
      Expr5(<<"1", "0", "/", "2">>, <<"2">>,
            <<"1", "-", "2", ",", "3", "0", ",", "3">>,
            <<"1", "-", "5", ",", "8">>, <<"1", "-", "5">>),
      Expr5(<<"5", "9">>, <<"2", "3">>, Star, Star, Star),
      Expr5(Zero, Zero, <<"3", "1">>, Star, Star),
      Expr5(Zero, Zero, <<"1">>, <<"1">>, Star),
      Expr5(Zero, Zero, <<"2", "9">>, <<"2">>, Star),
      Expr5(Zero, Zero, <<"3", "1">>, <<"2">>, Star),
      Expr5(Zero, Zero, <<"3", "0">>, <<"2">>, Star),
      Expr5(<<"*", "/", "3", "0">>, <<"*", "/", "1", "2">>, <<"*", "/", "1", "0">>,
            Star, Star),
      Expr5(Zero, <<"1", "2">>, <<"*", "/", "1", "0">>, Star, <<"6">>),
      Expr5(<<"5", "9">>, Star, <<"*", "/", "1", "0">>, Star, <<"6">>),
      Expr5(Zero, Zero, <<"*", ",", "5">>, Star, Star),
      Expr5(Zero, Zero, Star, Star, <<"1", ",", "*">>),
      Expr5(Zero, <<"0", "-", "4", ",", "2", ",", "*", "/", "1", "2">>,
            Star, Star, Star),
      Expr5(Zero, Zero, <<"1", "/">> \o MaxIntDigits, Star, Star),
      Expr5(<<"5", "/">> \o MaxIntDigits, Zero, <<"1">>, <<"1">>, Star),
      Expr5(<<"0", ",", "3", "0">>, <<"2", "2", ",", "2", "3">>, Star,
            <<"1", ",", "7", ",", "1", "2">>, Star),
      SP \o Expr5(<<"0", "5">>, <<"0", "-", "0">>, Star, <<"3", "/", "9">>,
                  <<"0", ",", "6">>) \o <<" ", "\t">> }

InvalidExpressions ==
    { Star \o SP \o Star \o SP \o Star \o SP \o Star,
      <<"7", "0">> \o SP \o Star \o SP \o Star \o SP \o Star,
      Expr5(Star, <<>>, Star, Star, Star),
      Expr5(Star, <<>>, Star, Star, Star) \o SP \o Star,
      Expr5(Star, Star, Star, Star, <<>>),
      Expr5(Star \o <<"\t">> \o Star, Star, Star, Star, Star),
      Star \o <<"\t">> \o Star \o SP \o Star \o SP \o Star \o SP \o Star,
      Expr5(<<"7", "0">>, Star, Star, Star, Star),
      Expr5(<<"5">>, <<"7", "0">>, Star, Star, Star),
      Expr5(<<"5", ",", "7", "0">>, Star, Star, Star, Star),
      Expr5(<<"5", "0", "-", "7", "0">>, Star, Star, Star, Star),
      Expr5(<<"7", "0", "/", "5">>, Star, Star, Star, Star),
      Expr5(Star, Star, Zero, Star, Star),
      Expr5(Star, Star, Star, <<"1", "-", "1", "3">>, Star),
      Expr5(Star, Star, Star, Star, <<"7">>),
      Expr5(Star, <<"5", "-", "3">>, Star, Star, Star),
      Expr5(Star, <<"5", "-", "3", "0", "/", "5">>, Star, Star, Star),
      Expr5(Star, Star, <<"0", "/", "5">>, Star, Star),
      Expr5([k \in 1..20 |-> "9"], Star, Star, Star, Star),
      Expr5(<<"2", "1", "4", "7", "4", "8", "3", "6", "4", "8">>, Star, Star,
            Star, Star),
      Expr5(Star, Star, Star, <<"5", ",", "1", "3", "/", "2">>, Star),
      Expr5(Star, <<"*", "/", "0">>, Star, Star, Star),
      Expr5(<<"1", ",", "2">>, <<"3">>, <<"4", "-", "5">>, <<"6">>, <<"x">>),
      Expr5(<<"1">>, <<"2">>, <<"3">>, <<"*", "/">>, Star),
      <<>> }

TokenAlphabet == {"*", "/", "-", ",", "5", "x"}

RECURSIVE TextsUpTo(_)
\* Every text over TokenAlphabet of at most n characters.
TextsUpTo(n) ==
    IF n = 0 THEN {<<>>}
    ELSE LET shorter == TextsUpTo(n - 1)
         IN  shorter \cup {Append(x, c) : x \in shorter, c \in TokenAlphabet}

\* Every such text as the minute field of an otherwise wild card expression.
TokenExpressions ==
    {Expr5(x, Star, Star, Star, Star) : x \in TextsUpTo(MaxTokenLen)}

Expressions == ValidExpressions \cup InvalidExpressions \cup TokenExpressions

---------------------------------------------------------------------------
(* The caller: Parse, then one operation of the Schedule.                  *)

\* No exported function has been called directly, or it has not returned.
NoCall == [fn |-> "none"]

Init ==
    /\ expr \in Expressions
    /\ pc = "start"
    /\ schedule = EmptySchedule
    /\ parseErr = "none"
    /\ api = "none"
    /\ t = ZeroInstant
    /\ count = 0
    /\ year = 0
    /\ monthIdx = 0
    /\ hourIdx = 0
    /\ minuteIdx = 0
    /\ day = 0
    /\ numFound = 0
    /\ execTimes = <<>>
    /\ ret = <<>>
    /\ matched = FALSE
    /\ oracleT = ZeroInstant
    /\ oracleOut = <<>>
    /\ fnArgs = NoCall
    /\ fnOut = NoCall

\* schedule, err := Parse(expr); a panic leaves the caller without either.
DoParse ==
    /\ pc = "start"
    /\ LET r == Parse(expr)
       IN  IF r.err = "panic"
           THEN /\ pc' = "panicked"
                /\ UNCHANGED <<schedule, parseErr>>
           ELSE /\ pc' = IF r.err = "none" THEN "parsed" ELSE "failed"
                /\ schedule' = r.schedule
                /\ parseErr' = r.err
    /\ UNCHANGED <<fnVars, expr, callVars, oracleVars>>

CallShouldExecute ==
    /\ pc = "parsed"
    /\ \E i \in Instants :
        /\ t' = i
        /\ matched' = ShouldExecute(schedule, i)
    /\ api' = "ShouldExecute"
    /\ pc' = "tested"
    /\ UNCHANGED <<fnVars, expr, schedule, parseErr, count, year, monthIdx, hourIdx,
                   minuteIdx, day, numFound, execTimes, ret, oracleVars>>

\* The entry of NextExecutions: execTimes is made, computeStartValues begins
\* with its named results zeroed.
EnterNextExecutions(i, n, name) ==
    /\ pc = "parsed"
    /\ api' = name
    /\ t' = i
    /\ count' = n
    /\ execTimes' = <<>>
    /\ year' = 0
    /\ monthIdx' = 0
    /\ hourIdx' = 0
    /\ minuteIdx' = 0
    /\ day' = 0
    /\ numFound' = 0
    /\ pc' = "csv_month"
    /\ UNCHANGED <<fnVars, expr, schedule, parseErr, ret, matched, oracleVars>>

CallNextExecutions ==
    \E i \in Instants : \E n \in 1..MaxCount :
        EnterNextExecutions(i, n, "NextExecutions")

\* NextExecution(t) is NextExecutions(t, 1)[0].
CallNextExecution ==
    \E i \in Instants : EnterNextExecutions(i, 1, "NextExecution")

---------------------------------------------------------------------------
(* computeStartValues, one loop iteration per step.                        *)

\* A faulty variant of SearchFloor: the search starts at t itself.
SearchFloorSameMinute(i) == i

\* The instant NextExecutions hands to computeStartValues:
\* t.Add(1 * time.Minute).
SearchFloor(i) == AddMinute(i)

Floor == SearchFloor(t)

\* A faulty variant of DayMatches: weekdays counted from Monday = 0.
DayMatchesMondayFirst(s, y, month, d) ==
    LET dt == Date(y, month, d, 0, 0, 0)
    IN  \/ d \in DOMAIN s.DaysOfMonth
        \/ (Weekday(dt.year, dt.month, dt.day) + 6) % 7 \in DOMAIN s.DaysOfTheWeek

\* The day test shared by computeStartValues and NextExecutions.
DayMatches(s, y, month, d) ==
    LET dt == Date(y, month, d, 0, 0, 0)
        dayOfMonthOK == d \in DOMAIN s.DaysOfMonth
        dayOfWeekOK == Weekday(dt.year, dt.month, dt.day) \in DOMAIN s.DaysOfTheWeek
    IN  dayOfWeekOK \/ dayOfMonthOK

\* return year, monthIdx, hourIdx, minuteIdx, day: NextExecutions takes the
\* values and sets numFound to 0.
CSVReturn(y, mIdx, hIdx, mnIdx, d) ==
    /\ year' = y
    /\ monthIdx' = mIdx
    /\ hourIdx' = hIdx
    /\ minuteIdx' = mnIdx
    /\ day' = d
    /\ numFound' = 0
    /\ pc' = "ne_outer"

\* "The day of week was not valid so trying the next day."
CSVNextDay ==
    LET nextDay == Floor.day + 1
    IN  IF nextDay <= daysPerMonth(schedule.MonthsSlice[monthIdx + 1], Floor.year)
        THEN CSVReturn(Floor.year, monthIdx, 0, 0, nextDay)
        ELSE /\ monthIdx' = monthIdx + 1
             /\ pc' = "csv_month"
             /\ UNCHANGED <<year, hourIdx, minuteIdx, day, numFound>>

CSVMonthLoop ==
    /\ pc = "csv_month"
    /\ IF monthIdx >= Len(schedule.MonthsSlice)
       THEN CSVReturn(Floor.year + 1, 0, 0, 0, 1)
       ELSE IF schedule.MonthsSlice[monthIdx + 1] > Floor.month
       THEN CSVReturn(Floor.year, monthIdx, 0, 0, 1)
       ELSE IF schedule.MonthsSlice[monthIdx + 1] = Floor.month
       THEN IF DayMatches(schedule, Floor.year, Floor.month, Floor.day)
            THEN /\ pc' = "csv_hour"
                 /\ UNCHANGED <<year, monthIdx, hourIdx, minuteIdx, day, numFound>>
            ELSE CSVNextDay
       ELSE /\ monthIdx' = monthIdx + 1
            /\ UNCHANGED <<pc, year, hourIdx, minuteIdx, day, numFound>>
    /\ UNCHANGED <<fnVars, expr, schedule, parseErr, api, t, count, execTimes, ret,
                   matched, oracleVars>>

CSVHourLoop ==
    /\ pc = "csv_hour"
    /\ IF hourIdx >= Len(schedule.HoursSlice)
       THEN CSVNextDay
       ELSE IF schedule.HoursSlice[hourIdx + 1] > Floor.hour
       THEN CSVReturn(Floor.year, monthIdx, hourIdx, 0, Floor.day)
       ELSE IF schedule.HoursSlice[hourIdx + 1] = Floor.hour
       THEN /\ pc' = "csv_minute"
            /\ UNCHANGED <<year, monthIdx, hourIdx, minuteIdx, day, numFound>>
       ELSE /\ hourIdx' = hourIdx + 1
            /\ UNCHANGED <<pc, year, monthIdx, minuteIdx, day, numFound>>
    /\ UNCHANGED <<fnVars, expr, schedule, parseErr, api, t, count, execTimes, ret,
                   matched, oracleVars>>

\* for minuteIdx < len(s.MinutesSlice) { if ... >= tMinute { return } }: the
\* body changes nothing, so an iteration that does not return is followed by
\* the same iteration again.
CSVMinuteLoop ==
    /\ pc = "csv_minute"
    /\ IF minuteIdx < Len(schedule.MinutesSlice)
       THEN IF schedule.MinutesSlice[minuteIdx + 1] >= Floor.minute
            THEN CSVReturn(Floor.year, monthIdx, hourIdx, minuteIdx, Floor.day)
            ELSE UNCHANGED <<pc, year, monthIdx, hourIdx, minuteIdx, day, numFound>>
       ELSE /\ hourIdx' = hourIdx + 1
            /\ pc' = "csv_hour"
            /\ UNCHANGED <<year, monthIdx, minuteIdx, day, numFound>>
    /\ UNCHANGED <<fnVars, expr, schedule, parseErr, api, t, count, execTimes, ret,
                   matched, oracleVars>>

---------------------------------------------------------------------------
(* NextExecutions, one iteration of the year, month and day loops per step. *)

RECURSIVE HourMinuteLoop(_, _, _, _, _, _, _, _, _)
\* The hour and minute loops of one day: every (hour, minute) from the
\* current indices on is appended, until numFound reaches count (break
\* permutation) or the hours are exhausted.
HourMinuteLoop(s, y, month, d, n, hIdx, mnIdx, out, found) ==
    IF hIdx >= Len(s.HoursSlice)
    THEN [broke |-> FALSE, hourIdx |-> hIdx, minuteIdx |-> mnIdx,
          execTimes |-> out, numFound |-> found]
    ELSE IF mnIdx >= Len(s.MinutesSlice)
    THEN HourMinuteLoop(s, y, month, d, n, hIdx + 1, 0, out, found)
    ELSE LET execT == Date(y, month, d, s.HoursSlice[hIdx + 1],
                           s.MinutesSlice[mnIdx + 1], 0)
         IN  IF found + 1 = n
             THEN [broke |-> TRUE, hourIdx |-> hIdx, minuteIdx |-> mnIdx,
                   execTimes |-> Append(out, execT), numFound |-> found + 1]
             ELSE HourMinuteLoop(s, y, month, d, n, hIdx, mnIdx + 1,
                                 Append(out, execT), found + 1)

\* return execTimes; NextExecution hands on execTimes[0].
NEReturn(out) ==
    /\ pc' = "done"
    /\ ret' = IF api = "NextExecution" THEN <<out[1]>> ELSE out

\* for numFound <= count
NEYearLoop ==
    /\ pc = "ne_outer"
    /\ IF numFound <= count
       THEN /\ pc' = "ne_month"
            /\ UNCHANGED ret
       ELSE NEReturn(execTimes)
    /\ UNCHANGED <<fnVars, expr, schedule, parseErr, api, t, count, year, monthIdx,
                   hourIdx, minuteIdx, day, numFound, execTimes, matched,
                   oracleVars>>

\* A faulty variant of NEMonthLoop: past the last month the search starts
\* the same year again.
NEMonthLoopSameYear ==
    /\ pc = "ne_month"
    /\ IF monthIdx < Len(schedule.MonthsSlice)
       THEN /\ pc' = "ne_day"
            /\ UNCHANGED <<year, monthIdx, hourIdx, minuteIdx, day>>
       ELSE /\ year < MaxYear
            /\ monthIdx' = 0
            /\ day' = 1
            /\ hourIdx' = 0
            /\ minuteIdx' = 0
            /\ year' = year
            /\ pc' = "ne_outer"
    /\ UNCHANGED <<fnVars, expr, schedule, parseErr, api, t, count, numFound, execTimes,
                   ret, matched, oracleVars>>

\* for monthIdx < len(s.MonthsSlice); past the last month the search moves
\* to the first month of the next year.
NEMonthLoop ==
    /\ pc = "ne_month"
    /\ IF monthIdx < Len(schedule.MonthsSlice)
       THEN /\ pc' = "ne_day"
            /\ UNCHANGED <<year, monthIdx, hourIdx, minuteIdx, day>>
       ELSE /\ year < MaxYear
            /\ monthIdx' = 0
            /\ day' = 1
            /\ hourIdx' = 0
            /\ minuteIdx' = 0
            /\ year' = year + 1
            /\ pc' = "ne_outer"
    /\ UNCHANGED <<fnVars, expr, schedule, parseErr, api, t, count, numFound, execTimes,
                   ret, matched, oracleVars>>

\* for day <= daysInMonth; past the last day the search moves to the first
\* day of the next month of the list.
NEDayLoop ==
    /\ pc = "ne_day"
    /\ LET month == schedule.MonthsSlice[monthIdx + 1]
           daysInMonth == daysPerMonth(month, year)
       IN  IF day <= daysInMonth
           THEN IF DayMatches(schedule, year, month, day)
                THEN LET r == HourMinuteLoop(schedule, year, month, day, count,
                                             hourIdx, minuteIdx, execTimes,
                                             numFound)
                     IN  /\ execTimes' = r.execTimes
                         /\ numFound' = r.numFound
                         /\ IF r.broke
                            THEN /\ hourIdx' = r.hourIdx
                                 /\ minuteIdx' = r.minuteIdx
                                 /\ NEReturn(r.execTimes)
                                 /\ UNCHANGED <<monthIdx, day>>
                            ELSE /\ hourIdx' = 0
                                 /\ minuteIdx' = 0
                                 /\ day' = day + 1
                                 /\ UNCHANGED <<pc, monthIdx, ret>>
                ELSE /\ hourIdx' = 0
                     /\ minuteIdx' = 0
                     /\ day' = day + 1
                     /\ UNCHANGED <<pc, monthIdx, numFound, execTimes, ret>>
           ELSE /\ day' = 1
                /\ hourIdx' = 0
                /\ minuteIdx' = 0
                /\ monthIdx' = monthIdx + 1
                /\ pc' = "ne_month"
                /\ UNCHANGED <<numFound, execTimes, ret>>
    /\ UNCHANGED <<fnVars, expr, schedule, parseErr, api, t, count, year, matched,
                   oracleVars>>

---------------------------------------------------------------------------
(* The specification.                                                      *)

Next ==
    \/ DoParse
    \/ CallShouldExecute
    \/ CallNextExecutions
    \/ CallNextExecution
    \/ CSVMonthLoop
    \/ CSVHourLoop
    \/ CSVMinuteLoop
    \/ NEYearLoop
    \/ NEMonthLoop
    \/ NEDayLoop

Spec == Init /\ [][Next]_vars

\* A step of a running call of NextExecutions or NextExecution.
EngineStep ==
    \/ CSVMonthLoop
    \/ CSVHourLoop
    \/ CSVMinuteLoop
    \/ NEYearLoop
    \/ NEMonthLoop
    \/ NEDayLoop

\* The code is sequential: a running call that can take a step that changes
\* its state takes it.
FairSpec == Spec /\ WF_vars(EngineStep)

---------------------------------------------------------------------------
(* The brute-force scanner of the earlier version of the package, run on   *)
(* the schedule and the arguments of a call that has returned.             *)

\* A schedule that accepts some minute of at least four days of every week
\* of every month: the scanner reaches its next match within a few days.
IsDense(s) ==
    /\ Keys(s.Minutes) # {}
    /\ Keys(s.Hours) # {}
    /\ Keys(s.Months) = FieldMonthMin..FieldMonthMax
    /\ \/ Keys(s.DaysOfMonth) = FieldDayOfMonthMin..FieldDayOfMonthMax
       \/ Cardinality(Keys(s.DaysOfTheWeek)) >= 4

\* The expressions the scanner is run on.
OracleExpressions ==
    {e \in ValidExpressions \cup TokenExpressions :
        Parse(e).err = "none" /\ IsDense(Parse(e).schedule)}

InitOracle ==
    /\ Init
    /\ expr \in OracleExpressions

\* executionTimes := make([]time.Time, 0, 0); the first NextExecution(t)
\* begins with t = t.Add(1 * time.Minute).
OracleStart ==
    /\ pc = "done"
    /\ api = "NextExecutions"
    /\ oracleT' = AddMinute(t)
    /\ oracleOut' = <<>>
    /\ pc' = "or_scan"
    /\ UNCHANGED <<fnVars, expr, schedule, parseErr, callVars>>

\* One test of ShouldExecute by the scanner: a match is appended and the
\* next NextExecution begins one minute after it; a miss moves on one minute;
\* with count instants collected the scanner returns.
OracleScan ==
    /\ pc = "or_scan"
    /\ IF Len(oracleOut) >= count
       THEN /\ pc' = "or_done"
            /\ UNCHANGED oracleVars
       ELSE /\ oracleOut' = IF ShouldExecute(schedule, oracleT)
                            THEN Append(oracleOut, oracleT)
                            ELSE oracleOut
            /\ oracleT' = AddMinute(oracleT)
            /\ UNCHANGED pc
    /\ UNCHANGED <<fnVars, expr, schedule, parseErr, callVars>>

NextOracle ==
    \/ DoParse
    \/ CallNextExecutions
    \/ CSVMonthLoop
    \/ CSVHourLoop
    \/ CSVMinuteLoop
    \/ NEYearLoop
    \/ NEMonthLoop
    \/ NEDayLoop
    \/ OracleStart
    \/ OracleScan

OracleSpec == InitOracle /\ [][NextOracle]_vars

\* A step of the running scanner.
OracleStep == OracleStart \/ OracleScan

\* Both the engine and the scanner are sequential code: a step that can be
\* taken is taken.
FairOracleSpec == OracleSpec /\ WF_vars(EngineStep) /\ WF_vars(OracleStep)

---------------------------------------------------------------------------
(* Properties of the returned instants.                                    *)

\* An instant with its seconds dropped.
TruncateToMinute(i) == [i EXCEPT !.second = 0]

\* The instants of a sequence with their seconds dropped.
TruncateAll(seq) == [k \in 1..Len(seq) |-> TruncateToMinute(seq[k])]

\* The search has run past the last year that is followed.
SearchLeftModel ==
    /\ pc = "ne_month"
    /\ monthIdx >= Len(schedule.MonthsSlice)
    /\ year >= MaxYear

\* C1: on a parsed schedule every call NextExecutions(t, n) with n >= 1, and
\* every call NextExecution(t), returns, and returns exactly n instants (one
\* for NextExecution) -- as far as the years of the search are followed.
C1_CallReturns ==
    (pc = "csv_month") ~> ((pc = "done" /\ Len(ret) = count) \/ SearchLeftModel)

\* Where NextExecutions has returned and the scanner has been run on the
\* same schedule, instant and count, the two results are the same minutes.
ReturnedEqualsOracle ==
    pc = "or_done" => ret = TruncateAll(oracleOut)

\* C2: every call NextExecutions(t, n) returns the n minutes the brute-force
\* scanner collects from t + 1 minute on.
C2_EqualsOracle ==
    (pc = "csv_month") ~> (pc = "or_done" /\ ret = TruncateAll(oracleOut))

\* C3: every instant NextExecutions or NextExecution returns on a parsed
\* schedule satisfies ShouldExecute of that schedule.
C3_ReturnedInstantsMatch ==
    pc = "done" => \A k \in 1..Len(ret) : ShouldExecute(schedule, ret[k])

\* A call returned two instants, the first on a day that only the
\* day-of-week set accepts although the day-of-month set is not empty.
C3_Witness ==
    /\ pc = "done"
    /\ Len(ret) = 2
    /\ Keys(schedule.DaysOfMonth) # {}
    /\ ret[1].day \notin Keys(schedule.DaysOfMonth)

\* C4: the instants one call of NextExecutions returns are in strictly
\* increasing chronological order.
C4_StrictlyIncreasing ==
    pc = "done" => \A k \in 1..(Len(ret) - 1) : Before(ret[k], ret[k + 1])

\* A call returned instants on both sides of a year boundary.
C4_Witness ==
    /\ pc = "done"
    /\ Len(ret) >= 2
    /\ ret[1].year < ret[Len(ret)].year
    /\ ret[1].month = 12
    /\ ret[Len(ret)].month = 1

\* C5: the first instant returned is not earlier than t plus one minute with
\* the seconds dropped, and is not in the minute of t.
C5_FirstAfterT ==
    pc = "done" =>
        /\ ~Before(ret[1], TruncateToMinute(AddMinute(t)))
        /\ TruncateToMinute(ret[1]) # TruncateToMinute(t)

\* A call with an instant that has seconds returned exactly the next minute
\* with the seconds dropped.
C5_Witness ==
    /\ pc = "done"
    /\ t.second # 0
    /\ ret[1] = TruncateToMinute(AddMinute(t))

\* C6: ShouldExecute(t) is true exactly when the minute, the hour and the
\* month of t are accepted and the day of month or the weekday of t is
\* accepted; the seconds of t do not matter.
C6_ShouldExecuteIff ==
    pc = "tested" =>
        /\ matched <=>
            /\ t.minute \in Keys(schedule.Minutes)
            /\ t.hour \in Keys(schedule.Hours)
            /\ t.month \in Keys(schedule.Months)
            /\ \/ t.day \in Keys(schedule.DaysOfMonth)
               \/ Weekday(t.year, t.month, t.day) \in Keys(schedule.DaysOfTheWeek)
        /\ \A sec \in {0, 1, 59} :
              ShouldExecute(schedule, [t EXCEPT !.second = sec]) = matched

\* ShouldExecute accepted an instant that has seconds, on a day the
\* day-of-month set does not hold.
C6_Witness ==
    /\ pc = "tested"
    /\ matched
    /\ t.second # 0
    /\ t.day \notin Keys(schedule.DaysOfMonth)

---------------------------------------------------------------------------
(* Properties of Parse.                                                    *)

\* The five fields Parse splits the text of the run into.
FieldsOf(text) == Split(TrimSpace(text), " ")

\* The set of the elements of a sequence.
ToSet(seq) == {seq[k] : k \in 1..Len(seq)}

\* Every value ParseFieldValue returns for the tokens of one field.
GeneratedValueSet(field, min, max) ==
    UNION {ToSet(ParseFieldValue(tok, min, max).values) :
              tok \in ToSet(Split(field, ","))}

\* The values the tokens of one field stand for, before day resolution: the
\* returned values the Add method of the field keeps.
FieldValueSet(field, min, max) ==
    GeneratedValueSet(field, min, max) \cap (min..max)

\* C7: after a successful Parse the day sets follow the wild cards of the
\* two day fields: both "*" leaves both sets full; only the day-of-month
\* field "*" empties the day-of-month set; only the day-of-week field "*"
\* empties the day-of-week set; neither "*" keeps both sets as parsed.  The
\* sorted lists are built from the resolved sets.
C7_DayResolution ==
    pc = "parsed" =>
        LET fields == FieldsOf(expr)
            domStar == fields[3] = <<"*">>
            dowStar == fields[5] = <<"*">>
            dom == FieldValueSet(fields[3], FieldDayOfMonthMin, FieldDayOfMonthMax)
            dow == FieldValueSet(fields[5], FieldDayOfTheWeekMin, FieldDayOfTheWeekMax)
        IN  /\ (domStar /\ dowStar) =>
                /\ Keys(schedule.DaysOfMonth) = FieldDayOfMonthMin..FieldDayOfMonthMax
                /\ Keys(schedule.DaysOfTheWeek) = FieldDayOfTheWeekMin..FieldDayOfTheWeekMax
            /\ (domStar /\ ~dowStar) =>
                /\ Keys(schedule.DaysOfMonth) = {}
                /\ Keys(schedule.DaysOfTheWeek) = dow
            /\ (~domStar /\ dowStar) =>
                /\ Keys(schedule.DaysOfMonth) = dom
                /\ Keys(schedule.DaysOfTheWeek) = {}
            /\ (~domStar /\ ~dowStar) =>
                /\ Keys(schedule.DaysOfMonth) = dom
                /\ Keys(schedule.DaysOfTheWeek) = dow
            /\ schedule.DaysOfMonthSlice = SortSet(Keys(schedule.DaysOfMonth))
            /\ schedule.DaysOfWeekSlice = SortSet(Keys(schedule.DaysOfTheWeek))

\* Parse accepted an expression whose day-of-month field is "*" and whose
\* day-of-week field is not, and emptied the day-of-month set and its list.
C7_Witness ==
    /\ pc = "parsed"
    /\ FieldsOf(expr)[3] = <<"*">>
    /\ FieldsOf(expr)[5] # <<"*">>
    /\ schedule.DaysOfMonthSlice = <<>>
    /\ schedule.DaysOfWeekSlice # <<>>

\* A text of one or more decimal digits.
IsNumberText(s) == s # <<>> /\ IsDigits(s)

\* The form #-# .
IsRangeText(s) ==
    \E i \in 1..Len(s) :
        /\ s[i] = "-"
        /\ IsNumberText(SubSeq(s, 1, i - 1))
        /\ IsNumberText(SubSeq(s, i + 1, Len(s)))

\* One of the six documented token forms: * , */# , #-# , #-#/# , #/# , # .
IsDocumentedForm(tok) ==
    \/ tok = <<"*">>
    \/ IsNumberText(tok)
    \/ IsRangeText(tok)
    \/ \E j \in 1..Len(tok) :
          /\ tok[j] = "/"
          /\ IsNumberText(SubSeq(tok, j + 1, Len(tok)))
          /\ \/ SubSeq(tok, 1, j - 1) = <<"*">>
             \/ IsNumberText(SubSeq(tok, 1, j - 1))
             \/ IsRangeText(SubSeq(tok, 1, j - 1))

\* The tokens of field i (from 0) of a five-field text.
TokensOf(text, i) == Split(FieldsOf(text)[i + 1], ",")

\* A five-field text without empty field in which some token is not of a
\* documented form and every token of a documented form is one that
\* ParseFieldValue accepts for its field.
HasOnlyMalformedFaults(text) ==
    /\ Len(FieldsOf(text)) = 5
    /\ \A i \in 0..4 : FieldsOf(text)[i + 1] # <<>>
    /\ \E i \in 0..4 : \E k \in 1..Len(TokensOf(text, i)) :
          ~IsDocumentedForm(TokensOf(text, i)[k])
    /\ \A i \in 0..4 : \A k \in 1..Len(TokensOf(text, i)) :
          IsDocumentedForm(TokensOf(text, i)[k]) =>
              ParseFieldValue(TokensOf(text, i)[k], FieldMinMaxByIndex(i).min,
                              FieldMinMaxByIndex(i).max).kind = "ok"

\* C8: for an expression with a token that is not of one of the six
\* documented forms, Parse returns the unsupported-format error and does
\* not panic.
C8_MalformedTokenIsAnError ==
    (pc # "start" /\ HasOnlyMalformedFaults(expr)) =>
        /\ pc # "panicked"
        /\ parseErr = "unsupported_format"

\* C9: when Parse returns an error the Schedule it returns holds none of the
\* values or token texts of the fields parsed before the failure.
C9_NoPartialSchedule ==
    pc = "failed" =>
        /\ Keys(schedule.Minutes) = {}
        /\ Keys(schedule.Hours) = {}
        /\ Keys(schedule.DaysOfMonth) = {}
        /\ Keys(schedule.Months) = {}
        /\ Keys(schedule.DaysOfTheWeek) = {}
        /\ schedule.MinutesStr = <<>>
        /\ schedule.HoursStr = <<>>
        /\ schedule.DaysOfMonthStr = <<>>
        /\ schedule.MonthsStr = <<>>
        /\ schedule.DaysOfTheWeekStr = <<>>

---------------------------------------------------------------------------
(* The horizon of the year search.                                         *)

\* A schedule no instant of any year satisfies: an empty minute, hour or
\* month set, or no weekday accepted and every accepted day of month beyond
\* the end of every accepted month (2020 is a leap year).
NeverMatches(s) ==
    \/ Keys(s.Minutes) = {}
    \/ Keys(s.Hours) = {}
    \/ Keys(s.Months) = {}
    \/ /\ Keys(s.DaysOfTheWeek) = {}
       /\ \A month \in Keys(s.Months) : \A d \in Keys(s.DaysOfMonth) :
             d > daysPerMonth(month, 2020)

\* C10: on a schedule that can never match, the year search of
\* NextExecutions stops within a bounded number of years: it has ended
\* before it reaches the last year that is followed.
C10_InfeasibleSearchStops ==
    (pc \in {"ne_outer", "ne_month", "ne_day"} /\ NeverMatches(schedule)) =>
        year < MaxYear

---------------------------------------------------------------------------
(* NextExecutions with count = 0.                                          *)

\* The schedules that accept one minute of one hour: at most one instant a
\* day, so that a whole year of instants stays a short list.
SparseExpressions ==
    {e \in ValidExpressions :
        /\ Parse(e).err = "none"
        /\ Cardinality(Keys(Parse(e).schedule.Minutes)) = 1
        /\ Cardinality(Keys(Parse(e).schedule.Hours)) = 1}

InitZeroCount ==
    /\ Init
    /\ expr \in SparseExpressions

\* s.NextExecutions(t, 0)
CallNextExecutionsZero ==
    \E i \in Instants : EnterNextExecutions(i, 0, "NextExecutions")

NextZeroCount ==
    \/ DoParse
    \/ CallNextExecutionsZero
    \/ CSVMonthLoop
    \/ CSVHourLoop
    \/ CSVMinuteLoop
    \/ NEYearLoop
    \/ NEMonthLoop
    \/ NEDayLoop

ZeroCountSpec == InitZeroCount /\ [][NextZeroCount]_vars

\* C11: NextExecutions(t, count) never returns more than count instants,
\* for every count >= 0; with count = 0 the result is empty.
C11_NoMoreThanCount ==
    pc = "done" => Len(ret) <= count

---------------------------------------------------------------------------
(* The errors of Parse.                                                    *)

\* What is written in a token of a documented form: the text before and
\* after "/", and the two sides of "-".
StepText(tok) ==
    IF IndexOf(tok, "/") = 0 THEN <<"1">>
    ELSE SubSeq(tok, IndexOf(tok, "/") + 1, Len(tok))

RangeText(tok) ==
    IF IndexOf(tok, "/") = 0 THEN tok
    ELSE SubSeq(tok, 1, IndexOf(tok, "/") - 1)

\* The numbers written as bounds: none for "*", A for A, A and B for A-B.
\* The number a decimal text stands for, as far as it matters here: its
\* value, or a number above every field maximum when it does not fit an int.
NumberOf(text) ==
    IF FitsInt(text) THEN DigitsValue(text, 0) ELSE 2147483647

WrittenBounds(tok) ==
    IF RangeText(tok) = <<"*">> THEN {}
    ELSE {NumberOf(part) : part \in ToSet(Split(RangeText(tok), "-"))}

WrittenStart(tok) == NumberOf(Split(RangeText(tok), "-")[1])

\* The form A/N.
IsStartStep(tok) ==
    /\ IndexOf(tok, "/") # 0
    /\ IsNumberText(RangeText(tok))

\* A token of a documented form with a positive step, a written start that
\* does not exceed its written end, and a written bound outside [min, max].
IsOutOfDomainToken(tok, min, max) ==
    /\ IsDocumentedForm(tok)
    /\ NumberOf(StepText(tok)) > 0
    /\ \A a \in WrittenBounds(tok) : WrittenStart(tok) <= a
    /\ \E a \in WrittenBounds(tok) : a < min \/ a > max

\* Every token of a five-field text with the index (from 0) of its field, in
\* the order Parse meets them.
RECURSIVE TokensFrom(_, _)
TokensFrom(text, i) ==
    IF i > 4 THEN <<>>
    ELSE [k \in 1..Len(TokensOf(text, i)) |->
             [tok |-> TokensOf(text, i)[k], min |-> FieldMinMaxByIndex(i).min,
              max |-> FieldMinMaxByIndex(i).max]]
         \o TokensFrom(text, i + 1)

\* A five-field text without empty field in which some token is out of its
\* domain and every other token is one ParseFieldValue accepts.
HasOnlyDomainFaults(text) ==
    /\ Len(FieldsOf(text)) = 5
    /\ \A i \in 0..4 : FieldsOf(text)[i + 1] # <<>>
    /\ \E k \in 1..Len(TokensFrom(text, 0)) :
          IsOutOfDomainToken(TokensFrom(text, 0)[k].tok, TokensFrom(text, 0)[k].min,
                             TokensFrom(text, 0)[k].max)
    /\ \A k \in 1..Len(TokensFrom(text, 0)) :
          \/ IsOutOfDomainToken(TokensFrom(text, 0)[k].tok,
                                TokensFrom(text, 0)[k].min, TokensFrom(text, 0)[k].max)
          \/ ParseFieldValue(TokensFrom(text, 0)[k].tok, TokensFrom(text, 0)[k].min,
                             TokensFrom(text, 0)[k].max).kind = "ok"

\* The first token of such a text that is out of its domain.
FirstDomainFault(text) ==
    LET toks == TokensFrom(text, 0)
        bad(k) == IsOutOfDomainToken(toks[k].tok, toks[k].min, toks[k].max)
    IN  toks[CHOOSE k \in 1..Len(toks) : bad(k) /\ \A j \in 1..(k - 1) : ~bad(j)]

\* Parse has just returned or panicked.
ParseEnded == pc \in {"parsed", "failed", "panicked"}

\* C12: Parse fails with an out-of-domain error whenever a token has a
\* positive step, a written start not above its written end and a written
\* bound outside the domain of its field -- a single value, a range and a
\* start/step token alike, each token of a comma list on its own.  For a
\* start/step token A/N with A above the field maximum the error of a range
\* start larger than the range end (the end of A/N being the field maximum)
\* is taken as the out-of-domain error too.
C12_OutOfDomain ==
    (ParseEnded /\ HasOnlyDomainFaults(expr)) =>
        /\ pc = "failed"
        /\ IF /\ IsStartStep(FirstDomainFault(expr).tok)
              /\ WrittenStart(FirstDomainFault(expr).tok) > FirstDomainFault(expr).max
           THEN parseErr = "range"
           ELSE parseErr \in {"below_min", "above_max"}

\* The number of space characters of a text.
SpaceCount(text) == Cardinality({i \in 1..Len(text) : text[i] = " "})

\* C13: Parse fails with the field-count error exactly when the trimmed
\* expression does not split on single spaces into 5 fields (it does not
\* hold 4 spaces); the count comes before any field is looked at, and a tab
\* does not separate fields.
C13_FieldCount ==
    ParseEnded =>
        ((SpaceCount(TrimSpace(expr)) # 4) <=>
            (pc = "failed" /\ parseErr = "field_count"))

\* Parse refused "70 * * *" for its field count, not for the minute 70.
C13_Witness ==
    /\ pc = "failed"
    /\ parseErr = "field_count"
    /\ SpaceCount(TrimSpace(expr)) = 3
    /\ SubSeq(expr, 1, 3) = <<"7", "0", " ">>

\* Two consecutive spaces somewhere in a text: an empty field position.
HasDoubledSpace(text) ==
    \E i \in 1..(Len(text) - 1) : text[i] = " " /\ text[i + 1] = " "

--------------------------------------------------------------------------
(* Day fields that are not exactly "*".                                    *)

\* A field text of the form "*/n".
IsStarStep(field) ==
    /\ Len(field) > 2
    /\ field[1] = "*"
    /\ field[2] = "/"
    /\ IsDigits(SubSeq(field, 3, Len(field)))
    /\ FitsInt(SubSeq(field, 3, Len(field)))

\* The n of a field text "*/n".
StarStepOf(field) == DigitsValue(SubSeq(field, 3, Len(field)), 0)

\* min, min + n, min + 2n, ... up to max.
StepSet(min, max, n) == {v \in min..max : (v - min) % n = 0}

\* A comma list with a "*" among its tokens.
IsListWithStar(field) ==
    /\ field # <<"*">>
    /\ <<"*">> \in ToSet(Split(field, ","))

\* C15: a day set is cleared only when its own field text is exactly "*" and
\* the other day field's text is not: a day-of-month field "*/n" keeps the
\* set {1, 1+n, ...} and, with the day-of-week field "*", clears the
\* day-of-week set; a comma list with "*" in it keeps the full set and counts
\* as explicit; with day-of-month "*/n" and an explicit day-of-week field
\* ShouldExecute accepts a day that is in either set.
C15_ExplicitDayFields ==
    /\ pc = "parsed" =>
        LET dom == FieldsOf(expr)[3]
            dow == FieldsOf(expr)[5]
        IN  /\ (Keys(schedule.DaysOfMonth) = {}) <=>
                   (dom = <<"*">> /\ dow # <<"*">>)
            /\ (Keys(schedule.DaysOfTheWeek) = {}) <=>
                   (dow = <<"*">> /\ dom # <<"*">>)
            /\ IsStarStep(dom) =>
                   Keys(schedule.DaysOfMonth) =
                       StepSet(FieldDayOfMonthMin, FieldDayOfMonthMax, StarStepOf(dom))
            /\ IsListWithStar(dom) =>
                   Keys(schedule.DaysOfMonth) = FieldDayOfMonthMin..FieldDayOfMonthMax
            /\ IsListWithStar(dow) =>
                   Keys(schedule.DaysOfTheWeek) =
                       FieldDayOfTheWeekMin..FieldDayOfTheWeekMax
    /\ (pc = "tested" /\ IsStarStep(FieldsOf(expr)[3])
            /\ FieldsOf(expr)[5] # <<"*">>) =>
        (matched <=>
            /\ t.minute \in Keys(schedule.Minutes)
            /\ t.hour \in Keys(schedule.Hours)
            /\ t.month \in Keys(schedule.Months)
            /\ \/ t.day \in StepSet(FieldDayOfMonthMin, FieldDayOfMonthMax,
                                    StarStepOf(FieldsOf(expr)[3]))
               \/ Weekday(t.year, t.month, t.day) \in
                      FieldValueSet(FieldsOf(expr)[5], FieldDayOfTheWeekMin,
                                    FieldDayOfTheWeekMax))

\* With a day-of-month field "*/n" and an explicit day-of-week field,
\* ShouldExecute accepted an instant by its weekday alone: its day of month is
\* not one of 1, 1+n, ...
C15_Witness ==
    /\ pc = "tested"
    /\ matched
    /\ IsStarStep(FieldsOf(expr)[3])
    /\ FieldsOf(expr)[5] # <<"*">>
    /\ t.day \notin StepSet(FieldDayOfMonthMin, FieldDayOfMonthMax,
                            StarStepOf(FieldsOf(expr)[3]))
    /\ Keys(schedule.DaysOfMonth) # {}

--------------------------------------------------------------------------
(* A consumer that calls the exported Add methods on a parsed Schedule.    *)

\* The number of Add calls a run makes after Parse.
MaxAdds == 2

\* The value lists the consumer passes: a valid value, and a valid one
\* together with one outside every field's domain.
AddedValues == {<<30>>, <<5, 70>>}

MutateExpressions ==
    { Expr5(Star, Star, Star, Star, Star),
      Expr5(Zero, <<"2", "2">>, Star, Star, <<"1", "-", "5">>),
      Expr5(<<"5">>, Zero, Star, <<"8">>, Star),
      Expr5(<<"1", "5">>, <<"1", "4">>, <<"1">>, Star, Star) }

\* The sum of the entries of a map: how many valid values were added to it.
Entries(m) == Cardinality({kj \in (DOMAIN m) \X (1..60) : kj[2] <= m[kj[1]]})

TotalEntries(s) ==
    Entries(s.Minutes) + Entries(s.Hours) + Entries(s.DaysOfMonth)
        + Entries(s.Months) + Entries(s.DaysOfTheWeek)

\* s.AddByIndex(values, index) on the Schedule Parse returned; with index
\* 0..4 it is AddMinutes .. AddDaysOfTheWeek.  The maps change, the lists
\* are left as buildSlices made them.
CallAddByIndex ==
    /\ pc = "parsed"
    /\ TotalEntries(schedule) < TotalEntries(Parse(expr).schedule) + MaxAdds
    /\ \E values \in AddedValues, index \in 0..5 :
        schedule' = AddByIndex(schedule, values, index)
    /\ UNCHANGED <<fnVars, expr, pc, parseErr, api, t, count, year, monthIdx, hourIdx,
                   minuteIdx, day, numFound, execTimes, ret, matched,
                   oracleVars>>

InitMutate == Init /\ expr \in MutateExpressions

NextMutate == Next \/ CallAddByIndex

MutateSpec == InitMutate /\ [][NextMutate]_vars

\* C16: once Parse has returned a Schedule, whatever the consumer calls on
\* it, the five sets are those Parse built and each ascending list is the
\* sorted elements of its set.
C16_ReadOnly ==
    pc \in {"parsed", "tested", "done"} =>
        /\ Keys(schedule.Minutes) = Keys(Parse(expr).schedule.Minutes)
        /\ Keys(schedule.Hours) = Keys(Parse(expr).schedule.Hours)
        /\ Keys(schedule.DaysOfMonth) = Keys(Parse(expr).schedule.DaysOfMonth)
        /\ Keys(schedule.Months) = Keys(Parse(expr).schedule.Months)
        /\ Keys(schedule.DaysOfTheWeek) = Keys(Parse(expr).schedule.DaysOfTheWeek)
        /\ schedule.MinutesSlice = SortSet(Keys(schedule.Minutes))
        /\ schedule.HoursSlice = SortSet(Keys(schedule.Hours))
        /\ schedule.DaysOfMonthSlice = SortSet(Keys(schedule.DaysOfMonth))
        /\ schedule.MonthsSlice = SortSet(Keys(schedule.Months))
        /\ schedule.DaysOfWeekSlice = SortSet(Keys(schedule.DaysOfTheWeek))

--------------------------------------------------------------------------
(* Two consumers on one Schedule: while one runs NextExecutions(t, count)  *)
(* step by step, the other calls ShouldExecute(t).                         *)

Searching == pc \in {"csv_month", "csv_hour", "csv_minute",
                     "ne_outer", "ne_month", "ne_day"}

\* A faulty variant of the second consumer's call: the look-up of the minute
\* enters a missing key into the map.
ConcurrentShouldExecuteWriting ==
    /\ Searching
    /\ matched' = ShouldExecute(schedule, t)
    /\ schedule' = IF t.minute \in DOMAIN schedule.Minutes
                   THEN schedule
                   ELSE AddMinutes(schedule, <<t.minute>>)
    /\ UNCHANGED <<fnVars, expr, pc, parseErr, api, t, count, year, monthIdx,
                   hourIdx, minuteIdx, day, numFound, execTimes, ret,
                   oracleVars>>

\* ShouldExecute(t) called by a second consumer between two steps of the
\* search: it reads the maps of the Schedule and writes its own result only.
ConcurrentShouldExecute ==
    /\ Searching
    /\ matched' = ShouldExecute(schedule, t)
    /\ UNCHANGED <<fnVars, expr, pc, schedule, parseErr, api, t, count, year, monthIdx,
                   hourIdx, minuteIdx, day, numFound, execTimes, ret,
                   oracleVars>>

NextReaders == Next \/ ConcurrentShouldExecute

ReadersSpec == Init /\ [][NextReaders]_vars

\* C17: no step of ShouldExecute, NextExecutions or NextExecution changes the
\* Schedule; a ShouldExecute call interleaved with a search leaves every
\* variable of the search as it was and returns what it returns on the
\* Schedule Parse built, and no step of the search changes the result of
\* that call.
C17_ReadersDoNotInterfere ==
    [][ /\ (pc # "start") => (schedule' = schedule)
        /\ (Searching /\ matched' # matched) =>
              /\ UNCHANGED <<pc, t, count, year, monthIdx, hourIdx, minuteIdx,
                             day, numFound, execTimes, ret>>
              /\ matched' = ShouldExecute(Parse(expr).schedule, t)
        /\ (Searching /\ <<pc, year, monthIdx, hourIdx, minuteIdx, day,
                           numFound, execTimes, ret>>' #
                         <<pc, year, monthIdx, hourIdx, minuteIdx, day,
                           numFound, execTimes, ret>>) =>
              (matched' = matched) ]_vars

\* A search returned instants after the second consumer's ShouldExecute,
\* called in the middle of it, had returned true.
C17_Witness ==
    /\ pc = "done"
    /\ api \in {"NextExecutions", "NextExecution"}
    /\ matched
    /\ Len(ret) > 0

--------------------------------------------------------------------------
(* The expression of five wild cards.                                      *)

AllWild(text) == TrimSpace(text) = Expr5(Star, Star, Star, Star, Star)

\* C18: the Schedule parsed from "* * * * *" accepts every instant:
\* ShouldExecute is true for every minute of every hour, and on every day
\* of every month of a leap and of a common year, whatever the weekday and
\* the seconds; the ShouldExecute call of the run returned true.
C18_WildcardAcceptsAll ==
    /\ (pc = "parsed" /\ AllWild(expr)) =>
        /\ \A h \in FieldHourMin..FieldHourMax :
             \A mi \in FieldMinuteMin..FieldMinuteMax :
                ShouldExecute(schedule, Instant(2020, 7, 23, h, mi, 0))
        /\ \A y \in {2020, 2021} :
             \A month \in FieldMonthMin..FieldMonthMax :
                \A d \in 1..daysPerMonth(month, y) :
                   ShouldExecute(schedule, Instant(y, month, d, 23, 59, 59))
        /\ {Weekday(2020, 7, d) : d \in 1..7} =
               FieldDayOfTheWeekMin..FieldDayOfTheWeekMax
    /\ (pc = "tested" /\ AllWild(expr)) => matched

\* ShouldExecute was asked about the last minute of a year, with seconds,
\* on the Schedule of "* * * * *", and returned true.
C18_Witness ==
    /\ pc = "tested"
    /\ AllWild(expr)
    /\ matched
    /\ t.minute = 59 /\ t.hour = 21 /\ t.day = 31 /\ t.month = 12
    /\ t.second # 0

--------------------------------------------------------------------------
(* computeStartValues on its own.                                          *)

\* The iteration of the minute loop that comes next returns or ends the
\* loop; otherwise it leaves every variable as it is and is repeated for
\* ever.
MinuteLoopAdvances ==
    \/ minuteIdx >= Len(schedule.MinutesSlice)
    \/ schedule.MinutesSlice[minuteIdx + 1] >= Floor.minute

\* The month, the day and the hour of the floor are accepted and the hour
\* has an accepted minute at or after the floor's.
FloorHourHasCandidate ==
    /\ Floor.month \in Keys(schedule.Months)
    /\ DayMatches(schedule, Floor.year, Floor.month, Floor.day)
    /\ Floor.hour \in Keys(schedule.Hours)
    /\ \E m \in Keys(schedule.Minutes) : m >= Floor.minute

\* computeStartValues has just returned to NextExecutions.
StartValuesReturned ==
    /\ pc = "ne_outer"
    /\ numFound = 0
    /\ execTimes = <<>>
    /\ year = Floor.year

\* C19: computeStartValues terminates, so no iteration of its minute loop
\* repeats itself unchanged, and when the month, the day and the hour of the
\* floor are accepted it returns the position of the first accepted minute
\* at or after the floor's minute in that hour.
C19_StartValues ==
    /\ (pc = "csv_minute") => MinuteLoopAdvances
    /\ (StartValuesReturned /\ FloorHourHasCandidate) =>
        /\ schedule.MonthsSlice[monthIdx + 1] = Floor.month
        /\ day = Floor.day
        /\ schedule.HoursSlice[hourIdx + 1] = Floor.hour
        /\ schedule.MinutesSlice[minuteIdx + 1] >= Floor.minute
        /\ \A m \in Keys(schedule.Minutes) :
              m >= Floor.minute => schedule.MinutesSlice[minuteIdx + 1] <= m

--------------------------------------------------------------------------
(* The sets of a parsed Schedule.                                          *)

\* C20 as stated: after every successful Parse each of the five sets is
\* non-empty.
C20_AllSetsNonEmpty ==
    pc = "parsed" =>
        /\ Keys(schedule.Minutes) # {}
        /\ Keys(schedule.Hours) # {}
        /\ Keys(schedule.DaysOfMonth) # {}
        /\ Keys(schedule.Months) # {}
        /\ Keys(schedule.DaysOfTheWeek) # {}

\* C20 amended: after every successful Parse the minute, hour and month sets
\* are non-empty and at least one of the two day sets is non-empty; a day set
\* is empty only when its field is exactly "*" and the other day field is
\* not, which is when the day resolution clears it.
C20_NonEmptyUnlessCleared ==
    pc = "parsed" =>
        /\ Keys(schedule.Minutes) # {}
        /\ Keys(schedule.Hours) # {}
        /\ Keys(schedule.Months) # {}
        /\ Keys(schedule.DaysOfMonth) # {} \/ Keys(schedule.DaysOfTheWeek) # {}
        /\ (Keys(schedule.DaysOfMonth) = {}) =>
               (FieldsOf(expr)[3] = <<"*">> /\ FieldsOf(expr)[5] # <<"*">>)
        /\ (Keys(schedule.DaysOfTheWeek) = {}) =>
               (FieldsOf(expr)[5] = <<"*">> /\ FieldsOf(expr)[3] # <<"*">>)

\* Parse accepted an expression with an explicit day of month and the
\* day-of-week field "*", and returned a Schedule whose day-of-week set is
\* empty and whose other four sets are not.
C20_Witness ==
    /\ pc = "parsed"
    /\ Keys(schedule.DaysOfTheWeek) = {}
    /\ Keys(schedule.DaysOfMonth) # {}
    /\ Keys(schedule.Minutes) # {}
    /\ Keys(schedule.Hours) # {}
    /\ Keys(schedule.Months) # {}

--------------------------------------------------------------------------
(* The ascending lists of a parsed Schedule.                               *)

\* A list of integers in which every element is below the next one.
StrictlyAscending(seq) == \A k \in 1..(Len(seq) - 1) : seq[k] < seq[k + 1]

\* The list holds exactly the members of S, each once, in ascending order.
IsSortedListOf(seq, S) ==
    /\ StrictlyAscending(seq)
    /\ ToSet(seq) = S

\* The values a field's tokens generate, given the five field texts and the
\* index of the field counted from 0.
TokenUnion(fields, i) ==
    GeneratedValueSet(fields[i + 1], FieldMinMaxByIndex(i).min,
                      FieldMinMaxByIndex(i).max)

\* The generated values that lie in the field's domain.
TokenUnionInDomain(fields, i) ==
    FieldValueSet(fields[i + 1], FieldMinMaxByIndex(i).min,
                  FieldMinMaxByIndex(i).max)

\* C21 as stated: after a successful Parse, for each of the five fields the
\* ascending list is the sorted, duplicate-free union of the value sets its
\* comma-separated tokens generate.
C21_ListIsTokenUnion ==
    pc = "parsed" =>
        /\ IsSortedListOf(schedule.MinutesSlice, TokenUnion(FieldsOf(expr), 0))
        /\ IsSortedListOf(schedule.HoursSlice, TokenUnion(FieldsOf(expr), 1))
        /\ IsSortedListOf(schedule.DaysOfMonthSlice, TokenUnion(FieldsOf(expr), 2))
        /\ IsSortedListOf(schedule.MonthsSlice, TokenUnion(FieldsOf(expr), 3))
        /\ IsSortedListOf(schedule.DaysOfWeekSlice, TokenUnion(FieldsOf(expr), 4))

\* The day field with index i (2 or 4) is the one the day resolution clears:
\* its text is "*" and the other day field's text is not.
ClearedDayField(fields, i) ==
    /\ fields[i + 1] = <<"*">>
    /\ fields[(IF i = 2 THEN 4 ELSE 2) + 1] # <<"*">>

\* C21 amended: after a successful Parse the minute, hour and month lists,
\* and the list of each day field the day resolution did not clear, are the
\* sorted, duplicate-free union of the value sets the field's tokens
\* generate; the list of a cleared day field is empty.  Every list is
\* strictly ascending and a value named by two tokens appears once.
C21_ListIsTokenUnionUnlessCleared ==
    pc = "parsed" =>
        /\ IsSortedListOf(schedule.MinutesSlice, TokenUnionInDomain(FieldsOf(expr), 0))
        /\ IsSortedListOf(schedule.HoursSlice, TokenUnionInDomain(FieldsOf(expr), 1))
        /\ IsSortedListOf(schedule.MonthsSlice, TokenUnionInDomain(FieldsOf(expr), 3))
        /\ IF ClearedDayField(FieldsOf(expr), 2)
           THEN schedule.DaysOfMonthSlice = <<>>
           ELSE IsSortedListOf(schedule.DaysOfMonthSlice,
                               TokenUnionInDomain(FieldsOf(expr), 2))
        /\ IF ClearedDayField(FieldsOf(expr), 4)
           THEN schedule.DaysOfWeekSlice = <<>>
           ELSE IsSortedListOf(schedule.DaysOfWeekSlice,
                               TokenUnionInDomain(FieldsOf(expr), 4))

\* Parse accepted an hour field of three tokens of which two name the hour 2
\* and two the hour 0: each is in the list once.
C21_Witness ==
    /\ pc = "parsed"
    /\ Len(Split(FieldsOf(expr)[2], ",")) = 3
    /\ schedule.Hours[2] = 2
    /\ schedule.Hours[0] = 2
    /\ schedule.HoursSlice = <<0, 1, 2, 3, 4, 12>>

--------------------------------------------------------------------------
(* A consumer that builds a Schedule by hand: EmptySchedule() or Parse,    *)
(* then Add calls with any integers.                                       *)

\* The integers the consumer passes: the two ends of every field's domain
\* and their outer neighbours.
BuildIntegers == {-1, 0, 1, 6, 7, 12, 13, 23, 24, 31, 32, 59, 60}

\* The value lists: one integer, or two.
BuildValues ==
    {<<a>> : a \in BuildIntegers}
        \cup {<<a, b>> : a \in {0, 60}, b \in BuildIntegers}

\* The indexes handed to AddByIndex: the five fields and one on each side.
BuildIndexes == -1..5

\* What the Schedule held before the consumer's Add calls.
BuiltFrom == IF pc = "start" THEN EmptySchedule ELSE Parse(expr).schedule

\* s.AddByIndex(values, index), or with index 0..4 the Add method of that
\* field, on EmptySchedule() (before Parse) or on the Schedule of Parse.
BuildAddByIndex ==
    /\ pc \in {"start", "parsed"}
    /\ TotalEntries(schedule) < TotalEntries(BuiltFrom) + MaxAdds
    /\ \E values \in BuildValues, index \in BuildIndexes :
        schedule' = AddByIndex(schedule, values, index)
    /\ UNCHANGED <<fnVars, expr, pc, parseErr, api, t, count, year, monthIdx, hourIdx,
                   minuteIdx, day, numFound, execTimes, ret, matched,
                   oracleVars>>

NextBuild == DoParse \/ BuildAddByIndex

BuildExpressions ==
    { Expr5(Zero, <<"2", "2">>, Star, Star, <<"1", "-", "5">>),
      Expr5(<<"1", "5">>, <<"1", "4">>, <<"1">>, Star, Star) }

InitBuild == Init /\ expr \in BuildExpressions

BuildSpec == InitBuild /\ [][NextBuild]_vars

\* The values of a list that lie in the domain of the field with index i.
ValuesInDomain(values, i) ==
    LET inDomain(v) == /\ v >= FieldMinMaxByIndex(i).min
                       /\ v <= FieldMinMaxByIndex(i).max
    IN  SelectSeq(values, inDomain)

\* C22: whatever Add calls were made on EmptySchedule() or on a parsed
\* Schedule, every member of each set lies in its field's domain; adding a
\* list adds its in-domain values only, and AddByIndex with an index outside
\* 0..4 changes nothing.
C22_SetsWithinDomain ==
    pc \in {"start", "parsed"} =>
        /\ Keys(schedule.Minutes) \subseteq FieldMinuteMin..FieldMinuteMax
        /\ Keys(schedule.Hours) \subseteq FieldHourMin..FieldHourMax
        /\ Keys(schedule.DaysOfMonth) \subseteq FieldDayOfMonthMin..FieldDayOfMonthMax
        /\ Keys(schedule.Months) \subseteq FieldMonthMin..FieldMonthMax
        /\ Keys(schedule.DaysOfTheWeek) \subseteq
               FieldDayOfTheWeekMin..FieldDayOfTheWeekMax
        /\ \A values \in BuildValues :
              /\ \A index \in 0..4 :
                    AddByIndex(schedule, values, index) =
                        AddByIndex(schedule, ValuesInDomain(values, index), index)
              /\ \A index \in BuildIndexes \ (0..4) :
                    AddByIndex(schedule, values, index) = schedule

\* A Schedule built from EmptySchedule() by Add calls holds both ends of the
\* minute domain and nothing else.
C22_Witness ==
    /\ pc = "start"
    /\ Keys(schedule.Minutes) = {FieldMinuteMin, FieldMinuteMax}
    /\ Keys(schedule.Hours) = {}
    /\ schedule.MinutesSlice = <<>>

--------------------------------------------------------------------------
(* Direct calls of the exported functions GenerateValueSlice and           *)
(* ParseFieldValue.                                                        *)

\* The range ends, the intervals and the field domains of the calls.
SliceInts == {-1, 0, 1, 5, 31, 59, 60, MaxInt}

SliceIntervals == {-1, 0, 1, 2, 7, 60, MaxInt}

SliceDomains == {<<0, 59>>, <<1, 31>>, <<0, MaxInt>>}

\* The calls; those that are to return more values than a list can hold
\* are left out.
SliceCalls ==
    {a \in [fn : {"GenerateValueSlice"}, rangeStart : SliceInts,
            rangeEnd : SliceInts, interval : SliceIntervals,
            fieldMin : {d[1] : d \in SliceDomains},
            fieldMax : {d[2] : d \in SliceDomains}] :
        /\ <<a.fieldMin, a.fieldMax>> \in SliceDomains
        /\ (a.rangeEnd = MaxInt /\ a.fieldMax = MaxInt) =>
               (a.rangeStart = MaxInt \/ a.interval \notin 1..60)}

\* The tokens handed to ParseFieldValue: the six documented forms with
\* numbers inside and outside the domains, forms with a number missing, and
\* texts the regexp refuses.
FieldTokens ==
    { <<"*">>, <<"*", "/", "5">>, <<"*", "/", "1">>, <<"*", "/", "0">>,
      <<"*", "/", "6", "0">>, <<"*", "/">> \o MaxIntDigits,
      <<"5", "-", "9">>, <<"1", "0", "-", "3", "1">>, <<"9", "-", "5">>,
      <<"0", "-", "5", "9">>, <<"5", "-", "5">>, <<"0", "5", "-", "0", "9">>,
      <<"5", "-", "3", "0", "/", "5">>, <<"1", "-", "3", "1", "/", "1", "0">>,
      <<"5", "-", "9", "/", "9">>, <<"5", "-", "9", "/", "0">>,
      <<"9", "-", "5", "/", "2">>, <<"0", "-", "7", "0", "/", "7">>,
      <<"5", "/", "1", "0">>, <<"1", "/", "1">>, <<"0", "/", "5">>,
      <<"3", "1", "/", "2">>, <<"7", "0", "/", "5">>, <<"5", "/", "0">>,
      <<"5", "/">> \o MaxIntDigits, <<"1", "/">> \o MaxIntDigits,
      <<"5">>, <<"0">>, <<"0", "7">>, <<"3", "1">>, <<"5", "9">>, <<"6", "0">>,
      MaxIntDigits, <<"2", "1", "4", "7", "4", "8", "3", "6", "4", "8">>,
      <<>>, <<"-">>, <<"/">>, <<"5", "-">>, <<"-", "5">>, <<"5", "/">>,
      <<"/", "5">>, <<"*", "/">>, <<"5", "-", "9", "/">>, <<"-", "/">>,
      <<"x">>, <<"5", "x">>, <<"*", "5">>, <<"*", "*">>, <<"5", ",", "6">>,
      <<"5", "-", "6", "-", "7">>, <<"5", "/", "6", "/", "7">>,
      <<"*", "-", "5">>, <<" ", "5">> }

FieldCalls ==
    {[fn |-> "ParseFieldValue", value |-> v, min |-> d[1], max |-> d[2]] :
        v \in FieldTokens, d \in {<<0, 59>>, <<1, 31>>, <<0, 6>>}}

\* for value <= rangeEnd { ... value = value + interval }: with rangeEnd the
\* largest int the condition holds for every int, so the loop has no last
\* iteration.
LoopsForever(a) ==
    /\ a.interval > 0
    /\ a.rangeStart <= a.rangeEnd
    /\ a.rangeStart >= a.fieldMin
    /\ a.rangeEnd <= a.fieldMax
    /\ a.rangeEnd = MaxInt

\* The call is in the loop of GenerateValueSlice and stays there.
InLoop == [fn |-> "GenerateValueSlice", err |-> "in_loop", values |-> <<>>]

InitFunctions ==
    /\ expr = <<>>
    /\ pc = "start"
    /\ schedule = EmptySchedule
    /\ parseErr = "none"
    /\ api = "none"
    /\ t = ZeroInstant
    /\ count = 0
    /\ year = 0
    /\ monthIdx = 0
    /\ hourIdx = 0
    /\ minuteIdx = 0
    /\ day = 0
    /\ numFound = 0
    /\ execTimes = <<>>
    /\ ret = <<>>
    /\ matched = FALSE
    /\ oracleT = ZeroInstant
    /\ oracleOut = <<>>
    /\ fnArgs \in SliceCalls \cup FieldCalls
    /\ fnOut = NoCall

\* values, err := GenerateValueSlice(rangeStart, rangeEnd, interval,
\* fieldMin, fieldMax); a call whose loop has no last iteration does not
\* return.
CallGenerateValueSlice ==
    /\ fnArgs.fn = "GenerateValueSlice"
    /\ fnOut = NoCall
    /\ IF LoopsForever(fnArgs)
       THEN fnOut' = InLoop
       ELSE fnOut' = GenerateValueSlice(fnArgs.rangeStart, fnArgs.rangeEnd,
                                        fnArgs.interval, fnArgs.fieldMin,
                                        fnArgs.fieldMax)
                     @@ [fn |-> "GenerateValueSlice"]
    /\ UNCHANGED <<expr, pc, schedule, parseErr, callVars, oracleVars, fnArgs>>

\* values, err := ParseFieldValue(value, min, max)
CallParseFieldValue ==
    /\ fnArgs.fn = "ParseFieldValue"
    /\ fnOut = NoCall
    /\ fnOut' = ParseFieldValue(fnArgs.value, fnArgs.min, fnArgs.max)
                @@ [fn |-> "ParseFieldValue"]
    /\ UNCHANGED <<expr, pc, schedule, parseErr, callVars, oracleVars, fnArgs>>

NextFunctions == CallGenerateValueSlice \/ CallParseFieldValue

FunctionSpec == InitFunctions /\ [][NextFunctions]_vars

\* The call of the run was GenerateValueSlice and it has begun.
SliceCalled == fnArgs.fn = "GenerateValueSlice" /\ fnOut # NoCall

\* The conditions under which GenerateValueSlice is to refuse its input.
InvalidInterval(a) == a.interval <= 0

InvalidRange(a) == a.rangeStart > a.rangeEnd

OutOfDomain(a) == a.rangeStart < a.fieldMin \/ a.rangeEnd > a.fieldMax

\* C23: GenerateValueSlice returns an error exactly when the interval is not
\* positive, the range start exceeds the range end, or the range leaves the
\* field domain; the error is one whose condition holds and comes without
\* values; for every other input the call returns without error.
C23_ErrorsExactly ==
    SliceCalled =>
        /\ fnOut.err # "in_loop"
        /\ (fnOut.err # "none") <=>
               (InvalidInterval(fnArgs) \/ InvalidRange(fnArgs) \/ OutOfDomain(fnArgs))
        /\ (fnOut.err # "none") => (fnOut.values = <<>>)
        /\ (fnOut.err = "interval") => InvalidInterval(fnArgs)
        /\ (fnOut.err = "range") => InvalidRange(fnArgs)
        /\ (fnOut.err \in {"below_min", "above_max"}) => OutOfDomain(fnArgs)

\* rangeStart, rangeStart + step, ... as far as rangeEnd, in this order.
StepsUpTo(a) ==
    [k \in 1..(((a.rangeEnd - a.rangeStart) \div a.interval) + 1) |->
        a.rangeStart + (k - 1) * a.interval]

\* C24: on success GenerateValueSlice returns rangeStart, rangeStart + step,
\* rangeStart + 2 step, ... as far as rangeEnd, ascending: a non-empty list
\* that starts with rangeStart and lies within [fieldMin, fieldMax], and the
\* single value rangeStart when step > rangeEnd - rangeStart.
C24_ValuesOnSuccess ==
    (SliceCalled /\ fnOut.err = "none") =>
        /\ fnOut.values = StepsUpTo(fnArgs)
        /\ fnOut.values # <<>>
        /\ fnOut.values[1] = fnArgs.rangeStart
        /\ \A k \in 1..Len(fnOut.values) :
              fnOut.values[k] >= fnArgs.fieldMin /\ fnOut.values[k] <= fnArgs.fieldMax
        /\ StrictlyAscending(fnOut.values)
        /\ (fnArgs.interval > fnArgs.rangeEnd - fnArgs.rangeStart) =>
               (fnOut.values = <<fnArgs.rangeStart>>)

\* The call of the run was ParseFieldValue, with a token of one of the six
\* documented forms, and it is over.
TokenCalled ==
    /\ fnArgs.fn = "ParseFieldValue"
    /\ fnOut # NoCall
    /\ IsDocumentedForm(fnArgs.value)

\* How many of the six alternatives of the regexp a text matches.
GrammarsMatched(s) ==
    Cardinality({g \in {"*", "*/#", "#-#", "#-#/#", "#/#", "#"} :
        CASE g = "*" -> ReWildcard(s)
          [] g = "*/#" -> ReWildcardInterval(s)
          [] g = "#-#" -> ReRange(s)
          [] g = "#-#/#" -> ReRangeInterval(s)
          [] g = "#/#" -> ReStartInterval(s)
          [] g = "#" -> ReNumber(s)})

\* Every number written in a token fits an int.
NumbersFit(tok) ==
    /\ FitsInt(StepText(tok))
    /\ RangeText(tok) # <<"*">> =>
           \A part \in ToSet(Split(RangeText(tok), "-")) : FitsInt(part)

\* The arguments a token of a documented form stands for: (min, max, 1) for
\* "*", (min, max, b) for "*/b", (a, b, 1) for "a-b", (a, b, c) for "a-b/c",
\* (a, max, b) for "a/b" and (a, a, 1) for "a".
ArgumentsOf(tok, min, max) ==
    LET range == RangeText(tok)
        parts == Split(range, "-")
    IN  [rangeStart |-> IF range = <<"*">> THEN min ELSE NumberOf(parts[1]),
         rangeEnd |-> IF range = <<"*">> THEN max
                      ELSE IF Len(parts) = 2 THEN NumberOf(parts[2])
                      ELSE IF IndexOf(tok, "/") # 0 THEN max
                      ELSE NumberOf(parts[1]),
         interval |-> NumberOf(StepText(tok)),
         fieldMin |-> min,
         fieldMax |-> max]

\* What GenerateValueSlice returns for the arguments a token stands for, in
\* the shape of a result of ParseFieldValue.
ExpectedOf(tok, min, max) ==
    LET a == ArgumentsOf(tok, min, max)
    IN  Values(GenerateValueSlice(a.rangeStart, a.rangeEnd, a.interval,
                                  a.fieldMin, a.fieldMax))

\* C25: a token of one of the six documented forms matches exactly one
\* grammar and ParseFieldValue returns, without a panic, what
\* GenerateValueSlice returns for the arguments the token stands for; for
\* "a/b" these are the values a, a+b, a+2b, ... up to the field maximum.
C25_TokenForms ==
    TokenCalled =>
        /\ GrammarsMatched(fnArgs.value) = 1
        /\ fnOut.kind # "panic"
        /\ NumbersFit(fnArgs.value) =>
              /\ fnOut.kind = ExpectedOf(fnArgs.value, fnArgs.min, fnArgs.max).kind
              /\ fnOut.err = ExpectedOf(fnArgs.value, fnArgs.min, fnArgs.max).err
              /\ fnOut.values =
                     ExpectedOf(fnArgs.value, fnArgs.min, fnArgs.max).values
        /\ (NumbersFit(fnArgs.value) /\ IsStartStep(fnArgs.value)
                /\ fnOut.kind = "ok") =>
              fnOut.values =
                  StepsUpTo(ArgumentsOf(fnArgs.value, fnArgs.min, fnArgs.max))

--------------------------------------------------------------------------
(* The dates NextExecutions emits.                                         *)

\* The length of a month of the Gregorian calendar.
MonthLength(month, y) ==
    IF month = 2
    THEN (IF y % 4 = 0 /\ (y % 100 # 0 \/ y % 400 = 0) THEN 29 ELSE 28)
    ELSE IF month \in {4, 6, 9, 11} THEN 30 ELSE 31

\* An instant on a day that exists, in a month the Schedule accepts; when
\* only the day-of-month set constrains the day, on a day of that set.
IsRealAcceptedDate(s, i) ==
    /\ i.month \in Keys(s.Months)
    /\ i.day >= 1
    /\ i.day <= MonthLength(i.month, i.year)
    /\ i.hour \in 0..23
    /\ i.minute \in 0..59
    /\ (Keys(s.DaysOfTheWeek) = {}) => (i.day \in Keys(s.DaysOfMonth))

\* C26: every instant NextExecutions has emitted, during the search and at
\* its return, is a real calendar date in an accepted month: a day-of-month
\* value beyond the month's length yields no instant in that month and is
\* not rolled over into the following month.
C26_RealDates ==
    /\ \A k \in 1..Len(execTimes) : IsRealAcceptedDate(schedule, execTimes[k])
    /\ pc = "done" => \A k \in 1..Len(ret) : IsRealAcceptedDate(schedule, ret[k])

\* With day of month 31 every month, a search from the end of April
\* returned May 31 and then July 31: June has no instant.
C26_Witness ==
    /\ pc = "done"
    /\ Keys(schedule.DaysOfMonth) = {31}
    /\ Keys(schedule.DaysOfTheWeek) = {}
    /\ t.month = 4
    /\ Len(ret) = 2
    /\ ret[1].month = 5 /\ ret[1].day = 31
    /\ ret[2].month = 7 /\ ret[2].day = 31

--------------------------------------------------------------------------
(* From one year to the next.                                              *)

\* A Schedule that accepts one instant a year: one minute, one hour, one
\* month, one day of the month that every year has, no weekday.
OnceAYear(s) ==
    /\ Cardinality(Keys(s.Minutes)) = 1
    /\ Cardinality(Keys(s.Hours)) = 1
    /\ Cardinality(Keys(s.Months)) = 1
    /\ Cardinality(Keys(s.DaysOfMonth)) = 1
    /\ Keys(s.DaysOfTheWeek) = {}
    /\ \A d \in Keys(s.DaysOfMonth) : \A m \in Keys(s.Months) :
          d <= MonthLength(m, 2021)

\* The instant a once-a-year Schedule accepts in year y.
InstantOfYear(s, y) ==
    Instant(y, s.MonthsSlice[1], s.DaysOfMonthSlice[1], s.HoursSlice[1],
            s.MinutesSlice[1], 0)

\* C27: when the month loop of NextExecutions is past the last accepted
\* month, the search goes on in the following year at the first accepted
\* month, day 1, the first hour and the first minute, with what it has found
\* so far; so NextExecutions(t, n) on a once-a-year Schedule returns the
\* instant of each of n consecutive years, the first being this year's or
\* next year's.
C27_YearRollover ==
    /\ [][(pc = "ne_month" /\ monthIdx >= Len(schedule.MonthsSlice)) =>
             /\ year' = year + 1
             /\ monthIdx' = 0
             /\ day' = 1
             /\ hourIdx' = 0
             /\ minuteIdx' = 0
             /\ numFound' = numFound
             /\ execTimes' = execTimes
             /\ pc' = "ne_outer"]_vars
    /\ []((pc = "done" /\ api = "NextExecutions" /\ OnceAYear(schedule)) =>
             /\ Len(ret) = count
             /\ ret[1].year \in {t.year, t.year + 1}
             /\ \A k \in 1..Len(ret) :
                   ret[k] = InstantOfYear(schedule, ret[1].year + (k - 1)))

\* NextExecutions(t, 2) on a once-a-year Schedule returned, with t in the
\* second half of a year, the instants of the two years that follow.
C27_Witness ==
    /\ pc = "done"
    /\ api = "NextExecutions"
    /\ OnceAYear(schedule)
    /\ count = 2
    /\ Len(ret) = 2
    /\ ret[1].year = t.year + 1
    /\ ret[2].year = t.year + 2

=============================================================================
